---- MODULE Spec2Model ----
(***************************************************************************)
(* Page-path tree of the rem canvas companion: the flat collection of      *)
(* tldraw pages whose names are slash-delimited paths, and the handlers    *)
(* that add, rename/move and delete pages (AddPageButton,                  *)
(* RenamePageButton, DeletePageButton, nav-types).                         *)
(*                                                                         *)
(* A JavaScript string is modelled as a sequence of one-character strings, *)
(* so that slice, startsWith, split, join, trim and replace are computed   *)
(* as the code computes them.                                              *)
(***************************************************************************)
EXTENDS Integers, Sequences, FiniteSets, Bags, TLC

\* ------------------------------------------------------------------ bounds
\* at most this many pages in the editor at once (root included)
MaxPages == 4
\* no handler is run to completion when it would produce a longer page name
MaxPathLen == 6
\* page ids are 0 .. MaxIds; the editor hands out a fresh id per createPage
MaxIds == 3

\* ------------------------------------------------- JavaScript string helpers
\* s.startsWith(p)
StartsWith(s, p) ==
  /\ Len(p) <= Len(s)
  /\ SubSeq(s, 1, Len(p)) = p

\* s.slice(n) for 0 <= n
Slice(s, n) == SubSeq(s, n + 1, Len(s))

\* s.trim(): leading and trailing white space removed
RECURSIVE TrimStart(_)
TrimStart(s) ==
  IF s # <<>> /\ Head(s) = " " THEN TrimStart(Tail(s)) ELSE s

RECURSIVE TrimEnd(_)
TrimEnd(s) ==
  IF s # <<>> /\ s[Len(s)] = " " THEN TrimEnd(SubSeq(s, 1, Len(s) - 1)) ELSE s

Trim(s) == TrimEnd(TrimStart(s))

\* s.indexOf(pat), 0-based, -1 when pat does not occur
IndexOf(s, pat) ==
  LET hits == { i \in 0 .. (Len(s) - Len(pat)) :
                  SubSeq(s, i + 1, i + Len(pat)) = pat }
  IN IF hits = {} THEN -1
     ELSE CHOOSE i \in hits : \A j \in hits : i <= j

\* s.split("/"): always at least one part
RECURSIVE Split(_)
Split(s) ==
  LET i == IndexOf(s, <<"/">>)
  IN IF i = -1 THEN << s >>
     ELSE << SubSeq(s, 1, i) >> \o Split(Slice(s, i + 1))

\* parts.filter(Boolean): the empty string is falsy
FilterBoolean(parts) == SelectSeq(parts, LAMBDA p : p # <<>>)

\* parts.join("/")
RECURSIVE Join(_)
Join(parts) ==
  IF parts = <<>> THEN <<>>
  ELSE IF Len(parts) = 1 THEN parts[1]
  ELSE parts[1] \o <<"/">> \o Join(Tail(parts))

\* s.replace(/^\/+|\/+$/g, "")
RECURSIVE StripLeadingSlashes(_)
StripLeadingSlashes(s) ==
  IF s # <<>> /\ Head(s) = "/" THEN StripLeadingSlashes(Tail(s)) ELSE s

RECURSIVE StripTrailingSlashes(_)
StripTrailingSlashes(s) ==
  IF s # <<>> /\ s[Len(s)] = "/"
  THEN StripTrailingSlashes(SubSeq(s, 1, Len(s) - 1)) ELSE s

StripSlashes(s) == StripTrailingSlashes(StripLeadingSlashes(s))

\* The replacement text of String.prototype.replace(pattern: string,
\* replacement: string) (ECMAScript GetSubstitution without captures):
\* "$$" stands for "$", "$&" for the match, "$`" for the text before the
\* match and "$'" for the text after it; any other "$" is literal.
RECURSIVE GetSubstitution(_, _, _, _)
GetSubstitution(rep, matched, before, after) ==
  IF rep = <<>> THEN <<>>
  ELSE IF Head(rep) = "$" /\ Len(rep) >= 2
  THEN LET c == rep[2]
           rest == GetSubstitution(Slice(rep, 2), matched, before, after)
       IN IF c = "$" THEN <<"$">> \o rest
          ELSE IF c = "&" THEN matched \o rest
          ELSE IF c = "`" THEN before \o rest
          ELSE IF c = "'" THEN after \o rest
          ELSE <<"$">> \o GetSubstitution(Tail(rep), matched, before, after)
  ELSE << Head(rep) >> \o GetSubstitution(Tail(rep), matched, before, after)

\* s.replace(pat, rep) with a string pattern: the first occurrence only
Replace(s, pat, rep) ==
  LET i == IndexOf(s, pat)
  IN IF i = -1 THEN s
     ELSE LET before == SubSeq(s, 1, i)
              after == Slice(s, i + Len(pat))
          IN before \o GetSubstitution(rep, pat, before, after) \o after

\* a.localeCompare(b) < 0 on the characters page names are drawn from:
\* white space sorts before symbols, symbols before letters
CharRank(c) ==
  CASE c = " " -> 0
    [] c = "$" -> 1
    [] c = "/" -> 2
    [] c = "a" -> 3
    [] c = "b" -> 4
    [] OTHER -> 5

RECURSIVE LocaleLess(_, _)
LocaleLess(a, b) ==
  IF b = <<>> THEN FALSE
  ELSE IF a = <<>> THEN TRUE
  ELSE IF Head(a) = Head(b) THEN LocaleLess(Tail(a), Tail(b))
  ELSE CharRank(Head(a)) < CharRank(Head(b))

\* ------------------------------------------------------------- nav-types.ts
\* getMyPageSingle without the replace that strips the outer slashes
getMyPageSingleUnstripped(page) ==
  LET parts == Split(page.name)
      name == parts[Len(parts)]
      parentPath == Join(SubSeq(parts, 1, Len(parts) - 1))
  IN [id |-> page.id, name |-> page.name,
      my |-> [name |-> name, parentPath |-> parentPath]]

\* the derived fields of one page: name and parentPath
getMyPageSingle(page) ==
  LET parts == Split(StripSlashes(page.name))
      name == parts[Len(parts)]
      parentPath == Join(SubSeq(parts, 1, Len(parts) - 1))
  IN [id |-> page.id, name |-> page.name,
      my |-> [name |-> name, parentPath |-> parentPath]]

\* Array.prototype.sort is stable: insert each page after the pages that
\* do not compare greater
RECURSIVE InsertSorted(_, _)
InsertSorted(sorted, p) ==
  IF sorted = <<>> THEN << p >>
  ELSE IF LocaleLess(p.my.name, Head(sorted).my.name)
  THEN << p >> \o sorted
  ELSE << Head(sorted) >> \o InsertSorted(Tail(sorted), p)

RECURSIVE SortByName(_, _)
SortByName(sorted, rest) ==
  IF rest = <<>> THEN sorted
  ELSE SortByName(InsertSorted(sorted, Head(rest)), Tail(rest))

getMyPages(pgs) ==
  SortByName(<<>>, [i \in 1 .. Len(pgs) |-> getMyPageSingle(pgs[i])])

\* findAllChildPages comparing the bare prefix, without the "/" after it
findAllChildPagesBarePrefix(parentPage, allPages) ==
  LET parentPath ==
        IF parentPage.name = <<"/">> THEN <<>> ELSE Slice(parentPage.name, 1)
  IN SelectSeq(allPages, LAMBDA page :
       /\ page.id # parentPage.id
       /\ \/ StartsWith(Slice(page.name, 1), parentPath)
          \/ (parentPath = <<>> /\ page.name # <<"/">>))

\* findAllChildPages stopping one level down: no further "/" after the
\* parent's prefix
findAllChildPagesOneLevel(parentPage, allPages) ==
  LET parentPath ==
        IF parentPage.name = <<"/">> THEN <<>> ELSE Slice(parentPage.name, 1)
      prefix == parentPath \o <<"/">>
  IN SelectSeq(allPages, LAMBDA page :
       /\ page.id # parentPage.id
       /\ \/ /\ StartsWith(Slice(page.name, 1), prefix)
             /\ IndexOf(Slice(page.name, 1 + Len(prefix)), <<"/">>) = -1
          \/ (parentPath = <<>> /\ page.name # <<"/">>))

\* every page under parentPage, at any depth
findAllChildPages(parentPage, allPages) ==
  LET parentPath ==
        IF parentPage.name = <<"/">> THEN <<>> ELSE Slice(parentPage.name, 1)
  IN SelectSeq(allPages, LAMBDA page :
       /\ page.id # parentPage.id
       /\ \/ StartsWith(Slice(page.name, 1), parentPath \o <<"/">>)
          \/ (parentPath = <<>> /\ page.name # <<"/">>))

\* array.find(p => p.name === name): the first match, or none
FindByName(list, name) == SelectSeq(list, LAMBDA p : p.name = name)

\* --------------------------------------------------- the editor's page store
\* An editor state e is [pages, cur, nextId]: the pages in index order
\* (createPage appends), the current page id and the next fresh id.
EditorCreatePage(e, name) ==
  [e EXCEPT !.pages = Append(@, [id |-> e.nextId, name |-> name]),
            !.nextId = @ + 1]

\* renaming by replacing the page with a new one under a fresh id
EditorRenamePageAsNew(e, id, name) ==
  [e EXCEPT !.pages = [i \in 1 .. Len(@) |->
                         IF @[i].id = id
                         THEN [id |-> e.nextId, name |-> name]
                         ELSE @[i]],
            !.cur = IF @ = id THEN e.nextId ELSE @,
            !.nextId = @ + 1]

EditorRenamePage(e, id, name) ==
  [e EXCEPT !.pages = [i \in 1 .. Len(@) |->
                         IF @[i].id = id THEN [@[i] EXCEPT !.name = name]
                         ELSE @[i]]]

\* setCurrentPage that leaves the current page where it is
EditorSetCurrentPageNever(e, id) == e

EditorSetCurrentPage(e, id) == [e EXCEPT !.cur = id]

\* deletePage: no-op on the last remaining page or on an unknown id; when
\* the current page is deleted the editor moves to the page before it in
\* index order, or else to the page after it
EditorDeletePage(e, id) ==
  LET idx == { i \in 1 .. Len(e.pages) : e.pages[i].id = id }
  IN IF Len(e.pages) = 1 \/ idx = {} THEN e
     ELSE LET i == CHOOSE j \in idx : TRUE
              next == IF i > 1 THEN e.pages[i - 1].id ELSE e.pages[i + 1].id
          IN [e EXCEPT !.pages = SelectSeq(@, LAMBDA p : p.id # id),
                       !.cur = IF e.cur = id THEN next ELSE @]

\* ------------------------------------------------------------------- state
VARIABLES
  pages,          \* editor.getPages(): sequence of [id, name] in index order
  currentPageId,  \* editor.getCurrentPageId()
  nextId,         \* the id the next createPage hands out
  navPages,       \* Nav: the pages it rendered last (useState)
  navCurrentPage, \* Nav: the current page it rendered last (useState)
  run,            \* the handler run the Nav has not caught up with: its
                  \* reply and outcome, the editor calls whose store change
                  \* is not yet delivered, or the alert that is on screen
  query,          \* the last evaluation of a function of nav-types.ts or of
                  \* the Nav's child listing: what was asked and the answer
  disk,           \* server.js: the files under data/ (snapshot.json,
                  \* assets/, backups/)
  now,            \* server.js: the clock, in milliseconds
  res,            \* server.js: the last request and the response to it
  log,            \* what the requests so far were given: the kind and the
                  \* snapshot of the last write answered with success, and
                  \* for each backup folder what it was first made with
  doc,            \* the editor's document: the number of the change that
                  \* made it (getSnapshot(editor.store))
  acts,           \* how many times the user changed the document, asked for
                  \* a checkpoint or restored a backup
  saveTimeoutRef, \* PersistenceManager: saveTimeoutRef.current, 0 for null
  timers,         \* the browser's pending timeouts: their id and due time
  inflight,       \* the /api/save requests sent and not yet answered
  trail,          \* the time of the last store change, the store changes
                  \* of the burst it belongs to (those with no debounced
                  \* save between them), the debounced saves sent since,
                  \* the requests sent so far, and whether the server has
                  \* answered a request before one sent earlier
  isLoading,      \* RestoreComponent: the isLoading state
  flows,          \* RestoreComponent: the stage of each handleRestore call
                  \* so far, in the order of the clicks
  keyboardMode,   \* keyboardModeStore
  isOpen,         \* CommandPalette: isOpen
  search,         \* CommandPalette: query, the text of the search field
  paletteIndex,   \* CommandPalette: selectedIndex
  last,           \* the last key press or palette event: the event, the
                  \* state it met, the listeners it reached and what they
                  \* triggered
  selectedIndex,  \* Nav: selectedIndex
  navigationMemory, \* Nav: navigationMemory, a function from the paths
                  \* (without the leading slash) it has an entry for
  entered         \* one page followed from an ArrowRight on it onwards:
                  \* its id and the selection ArrowRight last left it
                  \* with; << >> while no page is followed

pageVars == << pages, currentPageId, nextId, navPages, navCurrentPage, run >>
serverVars == << disk, now, res, log >>
persistVars == << doc, acts, saveTimeoutRef, timers, inflight, trail >>
restoreVars == << isLoading, flows >>
keyVars == << keyboardMode, isOpen, search, paletteIndex, last >>
selVars == << selectedIndex, navigationMemory, entered >>
uiVars == << keyVars, selVars >>
clientVars == << persistVars, restoreVars, uiVars >>
vars == << pages, currentPageId, nextId, navPages, navCurrentPage, run,
           query, disk, now, res, log, clientVars >>

\* no function evaluated yet
NoQuery == [op |-> "none", path |-> <<>>, answer |-> <<>>]

\* the upload id a client uses and what the request body holds (the client
\* makes a new id for every upload, so no file is uploaded twice with
\* different contents); Absent stands for a file that does not exist
AssetNames == {"x"}
AssetBodies == {"p"}
Absent == "absent"

\* data/ after the server started on an empty directory: no snapshot.json
\* (no text), assets/ and backups/ empty
EmptyDisk ==
  [snapshot |-> <<>>,
   assets |-> [a \in AssetNames |-> Absent],
   backups |-> <<>>]

\* a JSON value as the request body carries it: its type and a payload
\* (the number, the length of the string, the store of the object);
\* Undefined is a field the body does not have
Undefined == [t |-> "undefined", v |-> 0]
JNull == [t |-> "null", v |-> 0]
JFalse == [t |-> "boolean", v |-> 0]
JNumber(n) == [t |-> "number", v |-> n]
JString(n) == [t |-> "string", v |-> n]
JObject(n) == [t |-> "object", v |-> n]

\* a request and the response to it: the route, the folder or snapshot the
\* request named, the status and the snapshot of the response
NoRequest ==
  [route |-> "none", folder |-> <<>>, sent |-> Undefined, status |-> 0,
   body |-> Undefined]
NoLog == [write |-> "none", snapshot |-> Undefined, made |-> <<>>]

\* the server as it starts, no request made
ServerIdle ==
  /\ disk = EmptyDisk
  /\ now = 1
  /\ res = NoRequest
  /\ log = NoLog

\* PersistenceManager before anything happened: the document as loaded, no
\* timer, nothing sent
NoTrail ==
  [lastChange |-> 0, burst |-> 0, fired |-> 0, firedAt |-> 0, sent |-> 0,
   overtaken |-> FALSE]

PersistIdle ==
  /\ doc = 0
  /\ acts = 0
  /\ saveTimeoutRef = 0
  /\ timers = {}
  /\ inflight = EmptyBag
  /\ trail = NoTrail

\* RestoreComponent as mounted: not loading, the button never clicked
RestoreIdle ==
  /\ isLoading = FALSE
  /\ flows = <<>>

NoKey ==
  [key |-> "none", mod |-> FALSE, body |-> FALSE, mode |-> FALSE,
   open |-> FALSE, root |-> FALSE, results |-> 0, delivered |-> FALSE,
   click |-> "none", result |-> "none", selected |-> -1]

\* the interface as mounted: keyboard mode off, the palette closed, the
\* first child selected, nothing remembered
UiIdle ==
  /\ keyboardMode = FALSE
  /\ isOpen = FALSE
  /\ search = <<>>
  /\ paletteIndex = 0
  /\ last = NoKey
  /\ selectedIndex = 0
  /\ navigationMemory = << >>
  /\ entered = << >>

ClientIdle ==
  /\ PersistIdle
  /\ RestoreIdle
  /\ UiIdle

\* what the user can answer to window.prompt; <<>> is Cancel or an empty line
AddReplies ==
  { <<>>, <<" ">>, <<"a">>, <<" ", "a", " ">>, <<"a", "a">>,
    <<"b", "/", "a">> }

RenameReplies ==
  { <<>>, <<"/">>, <<" ", "b", " ">>, <<"/", "b">>, <<"/", "b", "/">>,
    <<"/", "a", "/", "b">>, <<"/", "b", "/", "b", "/", "a">>,
    <<"/", "$", "$">> }

Editor == [pages |-> pages, cur |-> currentPageId, nextId |-> nextId]

\* Nav: currentMyPage and myPages, handed to the buttons as props
currentMyPage == getMyPageSingle(navCurrentPage)
myPages == getMyPages(navPages)

Call(op, id, name) == [op |-> op, id |-> id, name |-> name]

Outcome(e, result, target, calls) ==
  [e |-> e, result |-> result, target |-> target, calls |-> calls]

\* -------------------------------------------------------- AddPageButton.tsx
handleAdd(e, currentPage, allPages, pageName) ==
  IF pageName = <<>> \/ Trim(pageName) = <<>>
     THEN Outcome(e, "Ignored", <<>>, <<>>)
     ELSE
       LET currentPath ==
             IF currentPage.name = <<"/">> THEN <<>> ELSE currentPage.name
           fullPath == currentPath \o <<"/">> \o Trim(pageName)
       IN IF FindByName(allPages, fullPath) # <<>>
          THEN Outcome(e, "AlreadyExists", fullPath, <<>>)
          ELSE
            LET e1 == EditorCreatePage(e, fullPath)
                found == FindByName(allPages, fullPath)
                         \o FindByName(e1.pages, fullPath)
                e2 == IF found # <<>>
                      THEN EditorSetCurrentPage(e1, found[1].id) ELSE e1
            IN Outcome(e2, "Ok", fullPath,
                 << Call("createPage", e.nextId, fullPath) >>
                 \o (IF found # <<>>
                     THEN << Call("setCurrentPage", found[1].id, <<>>) >>
                     ELSE <<>>))

\* ----------------------------------------- RenamePageButton (handleRename)
\* the parent loop running one index too far, up to the target itself
RECURSIVE CreateMissingParentsInclusive(_, _, _, _, _)
CreateMissingParentsInclusive(acc, allPages, pathParts, i, currentPath) ==
  IF i > Len(pathParts) THEN acc
  ELSE
    LET path == currentPath \o <<"/">> \o pathParts[i]
        missing == FindByName(allPages, path) = <<>>
        acc1 == IF missing
                THEN [e |-> EditorCreatePage(acc.e, path),
                      calls |-> Append(acc.calls,
                                  Call("createPage", acc.e.nextId, path))]
                ELSE acc
    IN CreateMissingParentsInclusive(acc1, allPages, pathParts, i + 1, path)

\* the loop that creates the missing parent directories, from index i on
RECURSIVE CreateMissingParents(_, _, _, _, _)
CreateMissingParents(acc, allPages, pathParts, i, currentPath) ==
  IF i > Len(pathParts) - 1 THEN acc
  ELSE
    LET path == currentPath \o <<"/">> \o pathParts[i]
        missing == FindByName(allPages, path) = <<>>
        acc1 == IF missing
                THEN [e |-> EditorCreatePage(acc.e, path),
                      calls |-> Append(acc.calls,
                                  Call("createPage", acc.e.nextId, path))]
                ELSE acc
    IN CreateMissingParents(acc1, allPages, pathParts, i + 1, path)

\* the new name of one page of pagesToUpdate
NewPagePath(page, currentPage, newFullPath) ==
  IF page.id = currentPage.id THEN newFullPath
  ELSE <<"/">> \o Replace(Slice(page.name, 1),
                          Slice(currentPage.name, 1),
                          Slice(newFullPath, 1))

\* pagesToUpdate.forEach(... editor.renamePage ...)
RECURSIVE RenameEach(_, _, _, _)
RenameEach(acc, pagesToUpdate, currentPage, newFullPath) ==
  IF pagesToUpdate = <<>> THEN acc
  ELSE
    LET page == Head(pagesToUpdate)
        newPagePath == NewPagePath(page, currentPage, newFullPath)
    IN RenameEach([e |-> EditorRenamePage(acc.e, page.id, newPagePath),
                   calls |-> Append(acc.calls,
                               Call("renamePage", page.id, newPagePath))],
                  Tail(pagesToUpdate), currentPage, newFullPath)

\* the new path taken as typed, no leading slash ensured
NormalizeNewPathAsTyped(trimmedNewPath) == trimmedNewPath

\* "Ensure path starts with /"
NormalizeNewPath(trimmedNewPath) ==
  IF StartsWith(trimmedNewPath, <<"/">>) THEN trimmedNewPath
  ELSE <<"/">> \o trimmedNewPath

\* the rename handler without its root check
CannotRenameNever(currentPage) == FALSE

\* "Can't rename root page"
CannotRename(currentPage) == currentPage.name = <<"/">>

handleRename(e, currentPage, allPages, newPath) ==
  IF CannotRename(currentPage)
     THEN Outcome(e, "CannotRenameRoot", <<>>, <<>>)
     ELSE IF newPath = <<>> \/ Trim(newPath) = <<>>
             \/ Trim(newPath) = currentPage.name
     THEN Outcome(e, "Ignored", <<>>, <<>>)
     ELSE
       LET normalizedNewPath == NormalizeNewPath(Trim(newPath))
       IN IF FindByName(allPages, normalizedNewPath) # <<>>
          THEN Outcome(e, "AlreadyExists", normalizedNewPath, <<>>)
          ELSE
            LET pathParts == FilterBoolean(Split(normalizedNewPath))
                a1 == CreateMissingParents([e |-> e, calls |-> <<>>],
                                           allPages, pathParts, 1, <<>>)
                childPages == findAllChildPages(currentPage, allPages)
                pagesToUpdate == << currentPage >> \o childPages
                a2 == RenameEach(a1, pagesToUpdate, currentPage,
                                 normalizedNewPath)
                renamedPage == FindByName(a2.e.pages, normalizedNewPath)
                e3 == IF renamedPage # <<>>
                      THEN EditorSetCurrentPage(a2.e, renamedPage[1].id)
                      ELSE a2.e
            IN Outcome(e3, "Ok", normalizedNewPath,
                 a2.calls
                 \o (IF renamedPage # <<>>
                     THEN << Call("setCurrentPage", renamedPage[1].id, <<>>) >>
                     ELSE <<>>))

\* ------------------------------- nav-types.ts / DeletePageButton.tsx
\* pagesToDelete.forEach((page) => editor.deletePage(page))
RECURSIVE DeleteEach(_, _)
DeleteEach(acc, pagesToDelete) ==
  IF pagesToDelete = <<>> THEN acc
  ELSE
    LET page == Head(pagesToDelete)
    IN DeleteEach([e |-> EditorDeletePage(acc.e, page.id),
                   calls |-> Append(acc.calls,
                               Call("deletePage", page.id, page.name))],
                  Tail(pagesToDelete))

\* deleting the page alone, its child pages forgotten
deletePageOnly(acc, pageToDelete, allPages) ==
  DeleteEach(acc, << pageToDelete >>)

deletePageAndChildren(acc, pageToDelete, allPages) ==
  LET childPages == findAllChildPages(pageToDelete, allPages)
      pagesToDelete == << pageToDelete >> \o childPages
  IN DeleteEach(acc, pagesToDelete)

\* the delete handler without its root check
CannotDeleteNever(currentPage) == FALSE

\* "Can't delete root page"
CannotDelete(currentPage) == currentPage.name = <<"/">>

handleDelete(e, currentPage, allPages, confirmed) ==
  IF ~confirmed
     THEN Outcome(e, "Ignored", <<>>, <<>>)
     ELSE IF CannotDelete(currentPage)
     THEN Outcome(e, "CannotDeleteRoot", <<>>, <<>>)
     ELSE
       LET parentPath ==
             IF currentPage.my.parentPath = <<>> THEN <<"/">>
             ELSE <<"/">> \o currentPage.my.parentPath
           targetPage == FindByName(allPages, parentPath)
           a1 == deletePageAndChildren([e |-> e, calls |-> <<>>],
                                       currentPage, allPages)
           e2 == IF targetPage # <<>>
                 THEN EditorSetCurrentPage(a1.e, targetPage[1].id)
                 ELSE a1.e
       IN Outcome(e2, "Ok", parentPath,
            a1.calls
            \o (IF targetPage # <<>>
                THEN << Call("setCurrentPage", targetPage[1].id, <<>>) >>
                ELSE <<>>))

\* ------------------------------------------------------------------ actions
Names(pgs) == { pgs[i].name : i \in 1 .. Len(pgs) }

\* a handler runs only when its result stays within the bounds of the model
WithinBounds(e) ==
  /\ Len(e.pages) <= MaxPages
  /\ e.nextId <= MaxIds + 1
  /\ \A n \in Names(e.pages) : Len(n) <= MaxPathLen

NoRun ==
  [op |-> "none", input |-> <<>>, result |-> "none", target |-> <<>>,
   calls |-> <<>>]

\* the Nav shows the editor as it is and no alert is up: the user can act
Idle == run = NoRun

\* the editor is left as the handler left it; the Nav keeps what it
\* rendered until the store change reaches it
Commit(op, input, o) ==
  /\ pages' = o.e.pages
  /\ currentPageId' = o.e.cur
  /\ nextId' = o.e.nextId
  /\ run' = [op |-> op, input |-> input, result |-> o.result,
             target |-> o.target, calls |-> o.calls]
  /\ UNCHANGED << navPages, navCurrentPage, query, serverVars, clientVars >>

Init ==
  /\ pages = << [id |-> 0, name |-> <<"/">>] >>
  /\ currentPageId = 0
  /\ nextId = 1
  /\ navPages = pages
  /\ navCurrentPage = pages[1]
  /\ run = NoRun
  /\ query = NoQuery
  /\ ServerIdle
  /\ ClientIdle

\* A prompt or confirmation the user cancels ("Ignored") leaves everything
\* as it was: no step is taken. The props and the handler's outcome are
\* bound once (\E over a one-element set) and then read.
HandleAdd ==
  /\ Idle
  /\ \E currentPage \in {currentMyPage}, allPages \in {myPages},
        pageName \in AddReplies :
       \E o \in {handleAdd(Editor, currentPage, allPages, pageName)} :
          /\ o.result # "Ignored"
          /\ WithinBounds(o.e)
          /\ Commit("add", pageName, o)

HandleRename ==
  /\ Idle
  /\ \E currentPage \in {currentMyPage}, allPages \in {myPages},
        newPath \in RenameReplies :
       \E o \in {handleRename(Editor, currentPage, allPages, newPath)} :
          /\ o.result # "Ignored"
          /\ WithinBounds(o.e)
          /\ Commit("rename",
                    IF o.result = "CannotRenameRoot" THEN <<>> ELSE newPath,
                    o)

HandleDelete ==
  /\ Idle
  /\ \E currentPage \in {currentMyPage}, allPages \in {myPages},
        confirmed \in BOOLEAN :
       \E o \in {handleDelete(Editor, currentPage, allPages, confirmed)} :
          /\ o.result # "Ignored"
          /\ WithinBounds(o.e)
          /\ Commit("delete", <<>>, o)

\* CommandPalette: Enter on one of the listed pages. The only store change
\* is the current page, which the Nav's listener takes over at once.
SelectPage ==
  /\ Idle
  /\ \E i \in 1 .. Len(navPages) :
       /\ navPages[i].id # currentPageId
       /\ currentPageId' = EditorSetCurrentPage(Editor, navPages[i].id).cur
       /\ navCurrentPage' = navPages[i]
  /\ UNCHANGED << pages, nextId, navPages, run, query, serverVars,
                  clientVars >>

\* Nav's store listener (handleStoreChange): the change the handler made
\* reaches the Nav, which takes over the editor's current page and pages
\* where they differ from what it holds
HandleStoreChange ==
  /\ run.calls # <<>>
  /\ LET newCurrentPage ==
           CHOOSE p \in { pages[i] : i \in 1 .. Len(pages) } :
             p.id = currentPageId
         newPages == pages
     IN /\ navCurrentPage' =
             IF \/ newCurrentPage.id # navCurrentPage.id
                \/ newCurrentPage.name # navCurrentPage.name
             THEN newCurrentPage ELSE navCurrentPage
        /\ navPages' =
             IF \/ Len(newPages) # Len(navPages)
                \/ \E i \in 1 .. Len(newPages) : newPages[i] # navPages[i]
             THEN newPages ELSE navPages
  /\ run' = NoRun
  /\ UNCHANGED << pages, currentPageId, nextId, query, serverVars,
                  clientVars >>

\* the handler refused with an alert and changed nothing; the user
\* dismisses the alert
DismissAlert ==
  /\ ~Idle
  /\ run.calls = <<>>
  /\ run' = NoRun
  /\ UNCHANGED << pages, currentPageId, nextId, navPages, navCurrentPage,
                  query, serverVars, clientVars >>

Next ==
  \/ HandleAdd
  \/ HandleRename
  \/ HandleDelete
  \/ SelectPage
  \/ HandleStoreChange
  \/ DismissAlert

Spec == Init /\ [][Next]_vars

\* ------------------------------------------- the tree derived from the paths
\* Nav (nav.tsx 28-33): the pages listed under the current page
filteredPages(currentPage, allPages) ==
  LET currentPagePath ==
        IF currentPage.name = <<"/">> THEN <<>> ELSE Slice(currentPage.name, 1)
  IN SelectSeq(allPages, LAMBDA page :
       /\ page.my.parentPath = currentPagePath
       /\ page.id # currentPage.id)

\* at most this many pages besides the root in a stored collection
MaxTreePages == 3

\* names a stored page other than the root may have: nested, sharing a bare
\* prefix, with a trailing, a doubled or a second leading slash, or made of
\* slashes only (RenamePageButton stores the reply as typed once it begins
\* with "/")
TreePaths ==
  { <<"/", "a">>, <<"/", "a", "/", "b">>,
    <<"/", "a", "/", "b", "/", "c">>, <<"/", "a", "b">>,
    <<"/", "c">>, <<"/", "a", "/">>, <<"/", "a", "/", "/", "b">>,
    <<"/", "/", "a">>, <<"/", "/">> }

\* what parse may be given: with or without the leading slash, with empty
\* segments in front, inside and at the end
ParsePaths ==
  TreePaths \cup
  { <<>>, <<"/">>, <<"a">>, <<"a", "/", "b">>, <<"a", "/", "b", "/">>,
    <<"/", "/", "a", "/", "b", "/", "/">>, <<"a", "/", "/", "b">>,
    <<"/", "a", "/", "/", "/", "b">> }

\* the root page followed by the other pages, ids in index order
Collection(names) ==
  [i \in 1 .. Len(names) + 1 |->
     [id |-> i - 1, name |-> IF i = 1 THEN <<"/">> ELSE names[i - 1]]]

TreeInit ==
  /\ \E n \in 0 .. MaxTreePages : \E names \in [1 .. n -> TreePaths] :
       pages = Collection(names)
  /\ navPages = pages
  /\ \E i \in 1 .. Len(pages) : navCurrentPage = pages[i]
  /\ currentPageId = navCurrentPage.id
  /\ nextId = Len(pages)
  /\ run = NoRun
  /\ query = NoQuery
  /\ ServerIdle
  /\ ClientIdle

\* one function is evaluated on the collection and its answer kept
Answer(op, path, answer) ==
  /\ query' = [op |-> op, path |-> path, answer |-> answer]
  /\ UNCHANGED << pageVars, serverVars, clientVars >>

\* getMyPageSingle on a page of any name
Parse ==
  /\ query = NoQuery
  /\ \E p \in ParsePaths :
       Answer("parse", p, << getMyPageSingle([id |-> 0, name |-> p]) >>)

\* getMyPages on the collection
ParseAll ==
  /\ query = NoQuery
  /\ Answer("pages", <<>>, myPages)

\* findAllChildPages of the current page
Descendants ==
  /\ query = NoQuery
  /\ Answer("descendants", navCurrentPage.name,
            findAllChildPages(currentMyPage, myPages))

\* the Nav's listing under the current page
Children ==
  /\ query = NoQuery
  /\ Answer("children", navCurrentPage.name,
            filteredPages(currentMyPage, myPages))

TreeNext ==
  \/ Parse
  \/ ParseAll
  \/ Descendants
  \/ Children

TreeSpec == TreeInit /\ [][TreeNext]_vars

\* ---------------------------------------------------------------- server.js
\* the clock stops at this millisecond
MaxClock == 2

\* !snapshot: undefined, null, false, 0 and "" are refused
Falsy(value) ==
  \/ value.t \in {"undefined", "null"}
  \/ (value.t \in {"boolean", "number", "string"} /\ value.v = 0)

\* JSON.stringify(value, null, 2): the text written to the file, token by
\* token; an object is laid out on lines indented by two spaces
Stringify(value) ==
  CASE value.t = "null" -> << "null" >>
    [] value.t = "boolean" -> IF value.v = 0 THEN << "false" >> ELSE << "true" >>
    [] value.t = "number" -> << ToString(value.v) >>
    [] value.t = "string" ->
         << "\"" >> \o [i \in 1 .. value.v |-> "s"] \o << "\"" >>
    [] value.t = "object" ->
         << "{", "\n", "  ", "\"store\"", ":", " ", ToString(value.v),
            "\n", "}" >>

\* JSON.parse(text)
ParseNumber(token) == CHOOSE n \in 0 .. 9 : ToString(n) = token

ParseJSON(text) ==
  CASE Head(text) = "null" -> JNull
    [] Head(text) = "false" -> JFalse
    [] Head(text) = "true" -> [t |-> "boolean", v |-> 1]
    [] Head(text) = "\"" -> JString(Len(text) - 2)
    [] Head(text) = "{" ->
         JObject(ParseNumber(SelectSeq(text, LAMBDA token :
                   token \notin {"{", "\n", "  ", "\"store\"", ":", " ", "}"})[1]))
    [] OTHER -> JNumber(ParseNumber(Head(text)))

\* `backup-${timestamp}`: the time of the request, to the millisecond
BackupFolderName(t) == << "backup-", ToString(t) >>

\* what a request to /api/save may carry as snapshot
RequestSnapshots ==
  { Undefined, JNull, JNumber(0), JString(0), JObject(1), JObject(2) }

\* the folder a restore request may name: one a checkpoint can have made,
\* or no backup at all
RequestFolders ==
  { BackupFolderName(t) : t \in 1 .. MaxClock } \cup { << "backup-", "x" >> }

\* fs.copyFileSync of every file of the directory from over the files of to
CopyFiles(from, to) ==
  [a \in AssetNames |-> IF from[a] # Absent THEN from[a] ELSE to[a]]

\* the checkpoint branch of /api/save: the backup folder is made if it does
\* not exist, snapshot.json written in it, and every asset copied
makeBackup(d, t, snapshot) ==
  LET name == BackupFolderName(t)
      assetsBefore ==
        IF name \in DOMAIN d.backups THEN d.backups[name].assets
        ELSE [a \in AssetNames |-> Absent]
      folder == [snapshot |-> Stringify(snapshot),
                 assets |-> CopyFiles(d.assets, assetsBefore)]
  IN [d EXCEPT !.backups =
        [f \in DOMAIN d.backups \cup {name} |->
           IF f = name THEN folder ELSE d.backups[f]]]

\* /api/save writing snapshot.json only when no checkpoint is asked for
saveSnapshotUnlessCheckpoint(d, t, snapshot, checkpoint) ==
  IF checkpoint THEN makeBackup(d, t, snapshot)
  ELSE [d EXCEPT !.snapshot = Stringify(snapshot)]

\* /api/save with a snapshot: the backup when asked for, then snapshot.json
saveSnapshot(d, t, snapshot, checkpoint) ==
  [(IF checkpoint THEN makeBackup(d, t, snapshot) ELSE d)
     EXCEPT !.snapshot = Stringify(snapshot)]

\* POST /api/restore: the backup's assets copied back, its snapshot parsed
\* and written as the current one
restoreBackup(d, name) ==
  [d EXCEPT !.assets = CopyFiles(d.backups[name].assets, d.assets),
            !.snapshot = Stringify(ParseJSON(d.backups[name].snapshot))]

Response(route, folder, sent, status, body) ==
  [route |-> route, folder |-> folder, sent |-> sent, status |-> status,
   body |-> body]

\* what a backup folder was first made with, and whether a later checkpoint
\* wrote to the same folder
Made(made, d, t, snapshot) ==
  LET name == BackupFolderName(t)
  IN [f \in DOMAIN made \cup {name} |->
        IF f # name THEN made[f]
        ELSE IF name \in DOMAIN made THEN [made[name] EXCEPT !.again = TRUE]
        ELSE [snapshot |-> snapshot, assets |-> d.assets, again |-> FALSE]]

PostSave ==
  /\ \E snapshot \in RequestSnapshots, checkpoint \in BOOLEAN :
       IF Falsy(snapshot)
       THEN /\ res' = Response("POST /api/save", <<>>, snapshot, 400, Undefined)
            /\ UNCHANGED << disk, log >>
       ELSE /\ disk' = saveSnapshot(disk, now, snapshot, checkpoint)
            /\ res' = Response("POST /api/save", <<>>, snapshot, 200, Undefined)
            /\ log' = [write |-> "save", snapshot |-> snapshot,
                       made |-> IF checkpoint
                                THEN Made(log.made, disk, now, snapshot)
                                ELSE log.made]
  /\ UNCHANGED << now, pageVars, query, clientVars >>

GetLoad ==
  /\ res' = Response("GET /api/load", <<>>, Undefined, 200,
                     IF disk.snapshot = <<>> THEN JNull
                     ELSE ParseJSON(disk.snapshot))
  /\ UNCHANGED << disk, now, log, pageVars, query, clientVars >>

GetRestore ==
  /\ \E backupFolder \in RequestFolders :
       res' = IF backupFolder \notin DOMAIN disk.backups
              THEN Response("GET /api/restore", backupFolder, Undefined, 404,
                            Undefined)
              ELSE Response("GET /api/restore", backupFolder, Undefined, 200,
                            ParseJSON(disk.backups[backupFolder].snapshot))
  /\ UNCHANGED << disk, now, log, pageVars, query, clientVars >>

PostRestore ==
  /\ \E backupFolder \in RequestFolders :
       IF backupFolder \notin DOMAIN disk.backups
       THEN /\ res' = Response("POST /api/restore", backupFolder, Undefined,
                            404, Undefined)
            /\ UNCHANGED << disk, log >>
       ELSE /\ disk' = restoreBackup(disk, backupFolder)
            /\ res' = Response("POST /api/restore", backupFolder, Undefined,
                            200, Undefined)
            /\ log' = [log EXCEPT
                 !.write = "restore",
                 !.snapshot = ParseJSON(disk.backups[backupFolder].snapshot)]
  /\ UNCHANGED << now, pageVars, query, clientVars >>

PutUpload ==
  /\ \E id \in AssetNames, body \in AssetBodies :
       disk' = [disk EXCEPT !.assets[id] = body]
  /\ res' = Response("PUT /uploads", <<>>, Undefined, 200, Undefined)
  /\ UNCHANGED << now, log, pageVars, query, clientVars >>

\* time passes between two requests; it need not
Tick ==
  /\ now < MaxClock
  /\ now' = now + 1
  /\ UNCHANGED << disk, res, log, pageVars, query, clientVars >>

ServerNext ==
  \/ PostSave
  \/ GetLoad
  \/ GetRestore
  \/ PostRestore
  \/ PutUpload
  \/ Tick

ServerSpec == Init /\ [][ServerNext]_vars

\* ---------------------------------------------- POST /api/export-assets
\* an assets array holds at most this many entries
MaxAssets == 2

\* an entry of the array: null, or an object with its fields and whether
\* the file system refuses the write of its file; "" stands for a field
\* that is missing or empty (both are falsy)
NullAsset ==
  [null |-> TRUE, id |-> "", mimeType |-> "", blob |-> "",
   writeFails |-> FALSE]

Asset(id, mimeType, blob, writeFails) ==
  [null |-> FALSE, id |-> id, mimeType |-> mimeType, blob |-> blob,
   writeFails |-> writeFails]

ExportAssets ==
  { NullAsset,
    Asset("", "image/png", "p", FALSE),
    Asset("x", "", "", FALSE),
    Asset("x", "image/png", "p", FALSE),
    Asset("x", "image/png", "p", TRUE),
    Asset("x", "", "p", FALSE),
    Asset("y", "", "p", FALSE) }

JArray(entries) == [t |-> "array", v |-> entries]

\* req.body.assets: missing, null, a string, or an array
ExportBodies ==
  {Undefined, JNull, JString(1)}
  \cup { JArray(entries) :
           entries \in UNION { [1 .. n -> ExportAssets] : n \in 0 .. MaxAssets } }

getFileExtensionFromMimeType(mimeType) ==
  CASE mimeType = "image/png" -> ".png"
    [] mimeType = "application/octet-stream" -> ".bin"
    [] OTHER -> ".bin"

Exported(id, filename) == [id |-> id, filename |-> filename, success |-> TRUE]
NotExported(id) == [id |-> id, filename |-> "", success |-> FALSE]

\* fs.writeFileSync(assetPath, buffer)
WriteAsset(d, filename, blob) ==
  [d EXCEPT !.assets =
     [f \in DOMAIN d.assets \cup {filename} |->
        IF f = filename THEN blob ELSE d.assets[f]]]

\* the loop over the entries; acc holds the disk, the counts, the results
\* and whether the loop was left by an exception
RECURSIVE exportEach(_, _, _)
exportEach(acc, assets, i) ==
  IF i > Len(assets) THEN acc
  ELSE
    LET entry == assets[i]
    IN IF entry.null
       THEN [acc EXCEPT !.thrown = TRUE]
       ELSE IF entry.id = "" \/ entry.blob = ""
       THEN exportEach([acc EXCEPT !.failCount = @ + 1,
                                   !.results = Append(@, NotExported(entry.id))],
                       assets, i + 1)
       ELSE
         LET fileExtension ==
               getFileExtensionFromMimeType(
                 IF entry.mimeType = "" THEN "application/octet-stream"
                 ELSE entry.mimeType)
             filename == entry.id \o fileExtension
         IN IF entry.writeFails
            THEN exportEach([acc EXCEPT
                               !.failCount = @ + 1,
                               !.results = Append(@, NotExported(entry.id))],
                            assets, i + 1)
            ELSE exportEach([acc EXCEPT
                               !.d = WriteAsset(@, filename, entry.blob),
                               !.successCount = @ + 1,
                               !.results =
                                 Append(@, Exported(entry.id, filename))],
                            assets, i + 1)

\* the handler: the disk it leaves, the status and the body of its answer
exportAssets(d, assets) ==
  IF assets.t # "array"
  THEN [d |-> d, status |-> 400, body |-> Undefined]
  ELSE
    LET acc == exportEach([d |-> d, successCount |-> 0, failCount |-> 0,
                           results |-> <<>>, thrown |-> FALSE],
                          assets.v, 1)
    IN IF acc.thrown
       THEN [d |-> acc.d, status |-> 500, body |-> Undefined]
       ELSE [d |-> acc.d, status |-> 200,
             body |-> [successCount |-> acc.successCount,
                       failCount |-> acc.failCount,
                       results |-> acc.results]]

PostExportAssets ==
  /\ \E assets \in ExportBodies :
       \E o \in {exportAssets(disk, assets)} :
         /\ disk' = o.d
         /\ res' = Response("POST /api/export-assets", <<>>, assets,
                            o.status, o.body)
  /\ UNCHANGED << now, log, pageVars, query, clientVars >>

ExportNext == PostExportAssets

ExportSpec == Init /\ [][ExportNext]_vars

\* ------------------------------------------------- PersistenceManager.tsx
\* setTimeout(..., 2000): the debounce delay, in steps of the clock (one
\* step is a second here)
Delay == 2
\* the clock of the browser and the server stops at this step
MaxTime == 5
\* the user changes the document, asks for a checkpoint or restores a
\* backup at most this many times
MaxActs == 3

\* the body of a save request: getSnapshot(editor.store) and the flag
SaveRequest(d, checkpoint) == [snapshot |-> JObject(d), checkpoint |-> checkpoint]

\* fetch(".../api/save", ...): one more request on its way, marked with
\* its place in the order of sending
Send(requests, request, place) ==
  requests (+) SetToBag({ [snapshot |-> request.snapshot,
                           checkpoint |-> request.checkpoint,
                           place |-> place] })

\* handleStoreChange arming a timer without clearing the one pending
armTimerKeepingPending(pending, ref, id, due) ==
  pending \cup { [id |-> id, due |-> due] }

\* handleStoreChange: clearTimeout(saveTimeoutRef.current) when it is set,
\* then setTimeout
armTimer(pending, ref, id, due) ==
  { t \in pending : ref = 0 \/ t.id # ref } \cup { [id |-> id, due |-> due] }

\* the store listener runs: the timer is armed anew
handleStoreChangeSave(sent) ==
  /\ timers' = armTimer(timers, saveTimeoutRef, acts + 1, now + Delay)
  /\ saveTimeoutRef' = acts + 1
  /\ trail' = [trail EXCEPT
       !.lastChange = now,
       !.burst = IF trail.fired > 0 THEN 1 ELSE @ + 1,
       !.fired = 0,
       !.sent = sent]

\* the component mounts on the loaded document: the initial save is sent
PersistInit ==
  /\ pages = << [id |-> 0, name |-> <<"/">>] >>
  /\ currentPageId = 0
  /\ nextId = 1
  /\ navPages = pages
  /\ navCurrentPage = pages[1]
  /\ run = NoRun
  /\ query = NoQuery
  /\ ServerIdle
  /\ doc = 0
  /\ acts = 0
  /\ saveTimeoutRef = 0
  /\ timers = {}
  /\ inflight = Send(EmptyBag, SaveRequest(0, FALSE), 1)
  /\ trail = [NoTrail EXCEPT !.sent = 1]
  /\ RestoreIdle
  /\ UiIdle

\* the user changes the document: a new document, and the listener runs
UserChange ==
  /\ acts < MaxActs
  /\ now + Delay <= MaxTime
  /\ doc' = acts + 1
  /\ acts' = acts + 1
  /\ handleStoreChangeSave(trail.sent)
  /\ UNCHANGED << inflight, pageVars, query, serverVars, restoreVars, uiVars >>

\* the timer's callback: saveToServer(false) on the document as it is now
TimerFires ==
  /\ \E t \in timers :
       /\ t.due <= now
       /\ timers' = timers \ {t}
  /\ inflight' = Send(inflight, SaveRequest(doc, FALSE), trail.sent + 1)
  /\ trail' = [trail EXCEPT !.fired = @ + 1, !.firedAt = now,
                             !.sent = @ + 1]
  /\ UNCHANGED << doc, acts, saveTimeoutRef, pageVars, query, serverVars,
                  restoreVars, uiVars >>

\* CheckpointButton: createCheckpoint(editor)
ClickCheckpoint ==
  /\ acts < MaxActs
  /\ acts' = acts + 1
  /\ inflight' = Send(inflight, SaveRequest(doc, TRUE), trail.sent + 1)
  /\ trail' = [trail EXCEPT !.sent = @ + 1]
  /\ UNCHANGED << doc, saveTimeoutRef, timers, pageVars, query, serverVars,
                  restoreVars, uiVars >>

\* RestoreComponent.restoreFromCheckpoint on a backup the server has: the
\* backup's snapshot is loaded into the editor and sent as a save. Whether
\* loadSnapshot reaches the store listeners as a user change is left open.
RestoreBackup ==
  /\ acts < MaxActs
  /\ now + Delay <= MaxTime
  /\ acts' = acts + 1
  /\ \E backupFolder \in DOMAIN disk.backups :
       \E snapshot \in {ParseJSON(disk.backups[backupFolder].snapshot)} :
          /\ ~Falsy(snapshot)
          /\ doc' = snapshot.v
          /\ inflight' = Send(inflight, [snapshot |-> snapshot,
                                         checkpoint |-> FALSE],
                               trail.sent + 1)
  /\ \/ handleStoreChangeSave(trail.sent + 1)
     \/ /\ trail' = [trail EXCEPT !.sent = @ + 1]
        /\ UNCHANGED << saveTimeoutRef, timers >>
  /\ UNCHANGED << pageVars, query, serverVars, restoreVars, uiVars >>

\* the server answers one of the requests on their way, in any order
ServerReceives ==
  /\ \E request \in BagToSet(inflight) :
       /\ inflight' = inflight (-) SetToBag({request})
       /\ disk' = saveSnapshot(disk, now, request.snapshot,
                               request.checkpoint)
       /\ trail' = [trail EXCEPT !.overtaken =
            @ \/ \E other \in BagToSet(inflight) : other.place < request.place]
  /\ UNCHANGED << now, res, log, pageVars, query, doc, acts, saveTimeoutRef,
                  timers, restoreVars, uiVars >>

PersistTick ==
  /\ now < MaxTime
  /\ now' = now + 1
  /\ UNCHANGED << disk, res, log, pageVars, query, clientVars >>

PersistNext ==
  \/ UserChange
  \/ TimerFires
  \/ ClickCheckpoint
  \/ RestoreBackup
  \/ ServerReceives
  \/ PersistTick

PersistSpec == PersistInit /\ [][PersistNext]_vars

\* -------------------------------------------------------- RestoreComponent
\* the restore button is clicked at most this many times
MaxFlows == 3

\* the snapshots a backup may hold
BackupDocs == {1, 2}

\* a flow is in progress from the click until handleRestore returns
InProgress(stage) == stage \in {"list", "fetch", "save"}

\* handleRestore: if (isLoading) return; the button is disabled as well
MayStart(loading) == ~loading

\* the button is clicked: handleRestore asks for the list of checkpoints
ClickRestore ==
  /\ Len(flows) < MaxFlows
  /\ MayStart(isLoading)
  /\ flows' = Append(flows, "list")
  /\ UNCHANGED << isLoading, pageVars, query, serverVars, persistVars, uiVars >>

\* the list arrives: no backups, a cancelled or invalid selection or a
\* declined confirmation end the flow; otherwise restoreFromCheckpoint
\* starts, sets isLoading and asks for the backup
ListArrives ==
  /\ \E i \in 1 .. Len(flows) :
       /\ flows[i] = "list"
       /\ \/ /\ flows' = [flows EXCEPT ![i] = "dropped"]
             /\ UNCHANGED isLoading
          \/ /\ flows' = [flows EXCEPT ![i] = "fetch"]
             /\ isLoading' = TRUE
  /\ UNCHANGED << pageVars, query, serverVars, persistVars, uiVars >>

\* the backup arrives: loadSnapshot puts it in the editor and the save is
\* sent; an error status or an empty answer throws, and finally resets
\* isLoading
BackupArrives ==
  /\ \E i \in 1 .. Len(flows) :
       /\ flows[i] = "fetch"
       /\ \/ /\ flows' = [flows EXCEPT ![i] = "failed"]
             /\ isLoading' = FALSE
             /\ UNCHANGED doc
          \/ /\ \E d \in BackupDocs : doc' = d
             /\ flows' = [flows EXCEPT ![i] = "save"]
             /\ UNCHANGED isLoading
  /\ UNCHANGED << pageVars, query, serverVars, acts, saveTimeoutRef, timers,
                  inflight, trail, uiVars >>

\* the save is answered or fails: finally resets isLoading, then the alert
SaveArrives ==
  /\ \E i \in 1 .. Len(flows) :
       /\ flows[i] = "save"
       /\ \E outcome \in {"restored", "failed"} :
            flows' = [flows EXCEPT ![i] = outcome]
  /\ isLoading' = FALSE
  /\ UNCHANGED << pageVars, query, serverVars, persistVars, uiVars >>

RestoreNext ==
  \/ ClickRestore
  \/ ListArrives
  \/ BackupArrives
  \/ SaveArrives

RestoreSpec == Init /\ [][RestoreNext]_vars

\* ------------------------------------------ Controls.tsx / CommandPalette
\* Controls: const isRootPage = currentPage.name === "/"
isRootPage == currentMyPage.name = <<"/">>

\* what the user answers when a shortcut opens a prompt
KeyAddReplies == { <<>>, <<"a">>, <<"b">> }
KeyRenameReplies == { <<>>, <<"/", "b">> }

\* the shortcuts are followed while the editor has at most this many pages
MaxKeyPages == 3

\* what the user types into the search field
Queries == { <<>>, <<"A">>, <<"z">> }

\* keydown events: the key, Cmd or Ctrl held, the target is document.body
Key(key, mod, body) == [key |-> key, mod |-> mod, body |-> body]

KeyEvents ==
  { Key(k, FALSE, TRUE) :
      k \in {"c", "C", "r", "d", "k", "Escape", " ", "ArrowDown", "ArrowUp",
             "Enter"} }
  \cup { Key("k", TRUE, TRUE), Key("K", TRUE, TRUE), Key(" ", FALSE, FALSE) }

\* String.prototype.toLowerCase on the keys and characters of the model
ToLowerCase(c) ==
  CASE c = "C" -> "c"
    [] c = "K" -> "k"
    [] c = "A" -> "a"
    [] c = "Escape" -> "escape"
    [] c = "ArrowDown" -> "arrowdown"
    [] c = "ArrowUp" -> "arrowup"
    [] c = "Enter" -> "enter"
    [] OTHER -> c

LowerString(str) == [i \in 1 .. Len(str) |-> ToLowerCase(str[i])]

\* getSearchScore, in half points: a match counts 1, 0.5 for each match of
\* the run it continues, 2 at the start of a word
RECURSIVE ScoreFrom(_, _, _, _, _, _)
ScoreFrom(queryLower, textLower, i, queryIndex, consecutiveMatches, score) ==
  IF i > Len(textLower) \/ queryIndex > Len(queryLower)
  THEN IF queryIndex > Len(queryLower) THEN score ELSE -2
  ELSE IF textLower[i] = queryLower[queryIndex]
  THEN ScoreFrom(queryLower, textLower, i + 1, queryIndex + 1,
                 consecutiveMatches + 1,
                 score + 2 + (consecutiveMatches + 1)
                 + (IF i = 1 \/ textLower[i - 1] \in {"/", " "}
                    THEN 4 ELSE 0))
  ELSE ScoreFrom(queryLower, textLower, i + 1, queryIndex, 0, score)

getSearchScore(q, text) ==
  IF q = <<>> THEN 0
  ELSE ScoreFrom(LowerString(q), LowerString(text), 1, 1, 0, 0)

\* scored.sort((a, b) => b.score - a.score), stable
RECURSIVE InsertByScore(_, _)
InsertByScore(sorted, item) ==
  IF sorted = <<>> THEN << item >>
  ELSE IF item.score > Head(sorted).score THEN << item >> \o sorted
  ELSE << Head(sorted) >> \o InsertByScore(Tail(sorted), item)

RECURSIVE SortByScore(_, _)
SortByScore(sorted, rest) ==
  IF rest = <<>> THEN sorted
  ELSE SortByScore(InsertByScore(sorted, Head(rest)), Tail(rest))

\* CommandPalette: filteredPages, the results listed for a query
paletteFilteredPages(q, pgs) ==
  LET all == getMyPages(pgs)
  IN IF Trim(q) = <<>> THEN SubSeq(all, 1, IF Len(all) < 10 THEN Len(all) ELSE 10)
     ELSE
       LET scored == [i \in 1 .. Len(all) |->
                        [page |-> all[i],
                         score |-> getSearchScore(q, all[i].name)
                                   + getSearchScore(q, all[i].my.name)]]
           kept == SortByScore(<<>>,
                     SelectSeq(scored, LAMBDA item : item.score > 0))
           top == SubSeq(kept, 1, IF Len(kept) < 10 THEN Len(kept) ELSE 10)
       IN [i \in 1 .. Len(top) |-> top[i].page]

\* what the palette's listener does with a key: the palette's state after
\* it, the page Enter chose (at most one), what it does to keyboard mode,
\* and whether it stops the event
Handled(open, clear, index, selected, mode, stopped) ==
  [isOpen |-> open, clear |-> clear, paletteIndex |-> index,
   selected |-> selected, mode |-> mode, stopped |-> stopped]

paletteArrowUp(prev, length) == IF prev > 0 THEN prev - 1 ELSE length - 1

paletteArrowDown(prev, length) == IF prev < length - 1 THEN prev + 1 ELSE 0

\* Escape closes the palette and lets the event go on to the other listeners
stopEscapeNever(open) == FALSE

\* stopImmediatePropagation on the Escape that closes the palette
stopEscape(open) == open

\* CommandPalette.handleKeyDown, a capture listener on document; results
\* is filteredPages and index is selectedIndex, 0-based as in the code
paletteHandleKeyDown(event, open, results, index) ==
  IF open /\ event.key = "Escape"
  THEN Handled(FALSE, TRUE, index, <<>>, "on", stopEscape(open))
  ELSE IF event.key = " " /\ event.body /\ ~open
  THEN Handled(TRUE, TRUE, 0, <<>>, "off", TRUE)
  ELSE IF ~open THEN Handled(open, FALSE, index, <<>>, "keep", FALSE)
  ELSE CASE event.key = "ArrowDown" ->
              Handled(open, FALSE, paletteArrowDown(index, Len(results)),
                      <<>>, "keep", FALSE)
         [] event.key = "ArrowUp" ->
              Handled(open, FALSE, paletteArrowUp(index, Len(results)),
                      <<>>, "keep", FALSE)
         [] event.key = "Enter" ->
              IF index + 1 \in DOMAIN results
              THEN Handled(FALSE, TRUE, index, << results[index + 1] >>,
                           "keep", FALSE)
              ELSE Handled(open, FALSE, index, <<>>, "keep", FALSE)
         [] OTHER -> Handled(open, FALSE, index, <<>>, "keep", FALSE)

Shortcut(mode, click) == [mode |-> mode, click |-> click]

\* the shortcuts taken whatever the keyboard mode
gateOpen(mode) == TRUE

\* if (!keyboardMode) return
gate(mode) == mode

\* Controls.handleKeyDown, a bubble listener on document; mode and
\* isRootPage are the values of the render that registered it
controlsHandleKeyDown(event, mode, isRoot) ==
  IF event.mod /\ event.key = "k" THEN Shortcut("toggle", "none")
  ELSE IF ~gate(mode) THEN Shortcut("keep", "none")
  ELSE CASE ToLowerCase(event.key) = "c" -> Shortcut("keep", "add")
         [] ToLowerCase(event.key) = "r" ->
              Shortcut("keep", IF ~isRoot THEN "rename" ELSE "none")
         [] ToLowerCase(event.key) = "d" ->
              Shortcut("keep", IF ~isRoot THEN "delete" ELSE "none")
         [] ToLowerCase(event.key) = "escape" -> Shortcut("off", "none")
         [] OTHER -> Shortcut("keep", "none")

\* setKeyboardMode / toggleKeyboardMode on the store
SetMode(mode, change) ==
  CASE change = "on" -> TRUE
    [] change = "off" -> FALSE
    [] change = "toggle" -> ~mode
    [] OTHER -> mode

\* what the click on a button, or the palette's choice, makes of the editor
Outcomes(click, selected) ==
  CASE click = "add" ->
         { handleAdd(Editor, currentMyPage, myPages, pageName) :
             pageName \in KeyAddReplies }
    [] click = "rename" ->
         { handleRename(Editor, currentMyPage, myPages, newPath) :
             newPath \in KeyRenameReplies }
    [] click = "delete" ->
         { handleDelete(Editor, currentMyPage, myPages, confirmed) :
             confirmed \in BOOLEAN }
    [] OTHER ->
         IF selected # <<>>
         THEN { Outcome(EditorSetCurrentPage(Editor, selected[1].id),
                        "Selected", <<>>, <<>>) }
         ELSE { Outcome(Editor, "none", <<>>, <<>>) }

PageOf(e) ==
  CHOOSE pg \in { e.pages[i] : i \in 1 .. Len(e.pages) } : pg.id = e.cur

\* the editor as the handler left it, taken over by the store listeners of
\* the Nav and of the App, and the palette rendered again: its reset
\* effect runs when the results were computed anew
Render(o, open, q, index, mode, pressed) ==
  /\ WithinBounds(o.e)
  /\ Len(o.e.pages) <= MaxKeyPages
  /\ pages' = o.e.pages
  /\ currentPageId' = o.e.cur
  /\ nextId' = o.e.nextId
  /\ navPages' = o.e.pages
  /\ navCurrentPage' = PageOf(o.e)
  /\ isOpen' = open
  /\ search' = q
  /\ paletteIndex' = IF q # search \/ o.e.pages # pages THEN 0 ELSE index
  /\ keyboardMode' = mode
  /\ last' = pressed
  /\ UNCHANGED << run, query, serverVars, persistVars, restoreVars, selVars >>

\* a key is pressed: the palette's capture listener, then, unless stopped,
\* the listener of the Controls, then the button it clicked
KeyDown ==
  /\ Idle
  /\ \E event \in KeyEvents,
        results \in {paletteFilteredPages(search, pages)} :
       \E p \in {paletteHandleKeyDown(event, isOpen, results,
                                      paletteIndex)} :
         \E c \in {IF p.stopped THEN Shortcut("keep", "none")
                   ELSE controlsHandleKeyDown(event, keyboardMode,
                          isRootPage)} :
           \E o \in Outcomes(c.click, p.selected) :
             Render(o, p.isOpen, IF p.clear THEN <<>> ELSE search,
                    p.paletteIndex,
                    SetMode(SetMode(keyboardMode, p.mode), c.mode),
                    [key |-> event.key, mod |-> event.mod,
                     body |-> event.body, mode |-> keyboardMode,
                     open |-> isOpen,
                     root |-> isRootPage,
                     results |-> Len(results), delivered |-> ~p.stopped,
                     click |-> c.click, result |-> o.result,
                     selected |-> IF p.selected = <<>> THEN -1
                                  ELSE paletteIndex])

\* the search button: the openCommandPalette event, handleCustomEvent
OpenCommandPalette ==
  /\ Idle
  /\ Render(Outcome(Editor, "none", <<>>, <<>>), TRUE,
            IF ~isOpen THEN <<>> ELSE search,
            IF ~isOpen THEN 0 ELSE paletteIndex,
            IF ~isOpen THEN FALSE ELSE keyboardMode,
            [NoKey EXCEPT !.key = "openCommandPalette",
                          !.mode = keyboardMode, !.open = isOpen,
                          !.root = isRootPage])

\* the user edits the search field
TypeQuery ==
  /\ Idle
  /\ isOpen
  /\ \E q \in Queries :
       /\ q # search
       /\ Render(Outcome(Editor, "none", <<>>, <<>>), isOpen, q,
                 paletteIndex, keyboardMode,
                 [NoKey EXCEPT !.key = "input", !.mode = keyboardMode,
                               !.open = isOpen,
                               !.root = isRootPage])

KeysNext ==
  \/ KeyDown
  \/ OpenCommandPalette
  \/ TypeQuery

KeysSpec == Init /\ [][KeysNext]_vars

\* ------------------------------------------------------------------ nav.tsx
\* the navigator is followed while the editor has at most this many pages
MaxNavPages == 4

\* and their paths at most this many characters
MaxNavPathLen == 4

NavAddReplies == { <<"a">>, <<"a", "/", "b">> }
NavRenameReplies == { <<"/", "a", "/", "b">> }

\* Nav: currentPagePath, the key of the navigation memory
currentPagePath(currentPage) ==
  IF currentPage.name = <<"/">> THEN <<>> ELSE Slice(currentPage.name, 1)

\* an entry once made is kept
rememberKeepingFirst(memory, path, index) ==
  [k \in DOMAIN memory \cup {path} |->
     IF k \in DOMAIN memory THEN memory[k] ELSE index]

\* new Map(prev).set(currentPagePath, selectedIndex)
remember(memory, path, index) ==
  [k \in DOMAIN memory \cup {path} |-> IF k = path THEN index ELSE memory[k]]

\* the remembered index taken whatever the number of children
restoredUnchecked(rememberedIndex, length) == rememberedIndex

\* rememberedIndex < filteredPages.length ? rememberedIndex : 0
restored(rememberedIndex, length) ==
  IF rememberedIndex < length THEN rememberedIndex ELSE 0

\* the selection reset effect
resetSelection(mode, length, path, memory, index) ==
  IF mode /\ length > 0
  THEN IF path \in DOMAIN memory THEN restored(memory[path], length) ELSE 0
  ELSE index

Moved(index, memory, touched, target) ==
  [index |-> index, memory |-> memory, touched |-> touched,
   target |-> target]

\* Nav.handleKeyDown, registered while keyboard mode is on; children is
\* filteredPages, index is selectedIndex
navHandleKeyDown(key, currentPage, allPages, children, index, memory) ==
  CASE key = "ArrowDown" ->
         Moved(IF Len(children) > 0
               THEN (IF index < Len(children) - 1 THEN index + 1 ELSE 0)
               ELSE index,
               memory, FALSE, <<>>)
    [] key = "ArrowUp" ->
         Moved(IF Len(children) > 0
               THEN (IF index > 0 THEN index - 1 ELSE Len(children) - 1)
               ELSE index,
               memory, FALSE, <<>>)
    [] key = "ArrowRight" ->
         IF Len(children) > 0 /\ index + 1 \in DOMAIN children
         THEN Moved(index,
                    remember(memory, currentPagePath(currentPage), index),
                    TRUE, << children[index + 1] >>)
         ELSE Moved(index, memory, FALSE, <<>>)
    [] key = "ArrowLeft" ->
         IF currentPage.name # <<"/">>
         THEN LET parentPath ==
                    IF currentPage.my.parentPath = <<>> THEN <<"/">>
                    ELSE <<"/">> \o currentPage.my.parentPath
                  parentPage == FindByName(allPages, parentPath)
              IN Moved(index,
                       remember(memory, currentPagePath(currentPage),
                                index),
                       TRUE,
                       IF parentPage # <<>> THEN << parentPage[1] >>
                       ELSE <<>>)
         ELSE Moved(index, memory, FALSE, <<>>)
    [] OTHER -> Moved(index, memory, FALSE, <<>>)

children == filteredPages(currentMyPage, myPages)

\* ArrowRight left page id with the selection index: a page followed
\* already stays the one followed, otherwise this page may become it
Follow(followed, id, index) ==
  IF followed = << >> THEN { << >>, [id |-> id, index |-> index] }
  ELSE IF followed.id = id THEN { [id |-> id, index |-> index] }
  ELSE { followed }

\* what is kept of a step: for ArrowRight and ArrowLeft the path, the
\* selection and the number of children they met and whether they left
\* the current page and the memory as they were
Pressed(key, arrived, kept) ==
  IF key \in {"ArrowRight", "ArrowLeft"}
  THEN [key |-> key, path |-> currentPagePath(currentMyPage),
        index |-> selectedIndex, length |-> Len(children),
        arrived |-> arrived, kept |-> kept]
  ELSE [key |-> key, path |-> << >>, index |-> 0, length |-> 0,
        arrived |-> arrived, kept |-> TRUE]

\* the editor as the step left it, taken over by the Nav's store listener,
\* and the Nav rendered again: the reset effect runs when keyboard mode,
\* the number of children, the current page's name or the memory changed
NavRender(e, mode, memory, touched, index, key) ==
  /\ WithinBounds(e)
  /\ Len(e.pages) <= MaxNavPages
  /\ \A n \in Names(e.pages) : Len(n) <= MaxNavPathLen
  /\ pages' = e.pages
  /\ currentPageId' = e.cur
  /\ nextId' = e.nextId
  /\ navPages' = e.pages
  /\ navCurrentPage' = PageOf(e)
  /\ keyboardMode' = mode
  /\ navigationMemory' = memory
  /\ \E currentPage \in {getMyPageSingle(PageOf(e))} :
       \E shown \in {filteredPages(currentPage, getMyPages(e.pages))} :
         selectedIndex' =
           IF \/ mode # keyboardMode
              \/ Len(shown) # Len(children)
              \/ currentPage.name # currentMyPage.name
              \/ touched
           THEN resetSelection(mode, Len(shown),
                               currentPagePath(currentPage), memory, index)
           ELSE index
  /\ last' = Pressed(key, e.cur # currentPageId \/ (mode /\ ~keyboardMode),
                     e.cur = currentPageId /\ memory = navigationMemory)
  /\ UNCHANGED << run, query, serverVars, persistVars, restoreVars, isOpen,
                  search, paletteIndex >>

\* Cmd/Ctrl+K or Escape, as the Controls take them
ModeKey ==
  /\ Idle
  /\ \E event \in {Key("k", TRUE, TRUE), Key("Escape", FALSE, TRUE)} :
       /\ NavRender(Editor,
                    SetMode(keyboardMode,
                            controlsHandleKeyDown(event, keyboardMode,
                                                  isRootPage).mode),
                    navigationMemory, FALSE, selectedIndex, event.key)
       /\ UNCHANGED entered

\* an arrow key in keyboard mode
ArrowKey ==
  /\ Idle
  /\ keyboardMode
  /\ \E key \in {"ArrowDown", "ArrowUp", "ArrowRight", "ArrowLeft"} :
       \E m \in {navHandleKeyDown(key, currentMyPage, myPages, children,
                                  selectedIndex, navigationMemory)} :
         /\ NavRender(IF m.target # <<>>
                      THEN EditorSetCurrentPage(Editor, m.target[1].id)
                      ELSE Editor,
                      keyboardMode, m.memory, m.touched, m.index, key)
         /\ entered' \in
              IF key = "ArrowRight" /\ m.target # <<>>
              THEN Follow(entered, navCurrentPage.id, selectedIndex)
              ELSE {entered}

\* a page is added, renamed or deleted with the buttons
EditPages ==
  /\ Idle
  /\ \E click \in {"add", "rename", "delete"} :
       \E o \in CASE click = "add" ->
                     { handleAdd(Editor, currentMyPage, myPages, pageName) :
                         pageName \in NavAddReplies }
                  [] click = "rename" ->
                     { handleRename(Editor, currentMyPage, myPages,
                                    newPath) :
                         newPath \in NavRenameReplies }
                  [] OTHER ->
                     { handleDelete(Editor, currentMyPage, myPages, TRUE) } :
         /\ o.result = "Ok"
         /\ NavRender(o.e, keyboardMode, navigationMemory, FALSE,
                      selectedIndex, click)
  /\ UNCHANGED entered

NavNext ==
  \/ ModeKey
  \/ ArrowKey
  \/ EditPages

NavSpec == Init /\ [][NavNext]_vars

\* ------------------------------------------------- vocabulary of the claims
\* While a run is not yet rendered, navPages and navCurrentPage are the
\* collection and the page the handler ran on, pages and currentPageId what
\* it left.
PageSet(pgs) == { pgs[i] : i \in 1 .. Len(pgs) }
Ids(pgs) == { pgs[i].id : i \in 1 .. Len(pgs) }
RootPath == <<"/">>

Renamed == run.op = "rename" /\ run.result = "Ok"
Deleted == run.op = "delete" /\ run.result = "Ok"

\* "B.path starts with A.path + /"
IsUnder(bPath, aPath) == StartsWith(bPath, aPath \o <<"/">>)
CallsOf(op) == SelectSeq(run.calls, LAMBDA c : c.op = op)

\* C1: no two distinct nodes have the same path, in every reachable state.
C1_PathsUnique ==
  \A i, j \in 1 .. Len(pages) :
    i # j => pages[i].name # pages[j].name

\* C2: every non-root node's parentPath, computed from its own path, is ""
\* or the path minus leading slash of some other existing node.
C2_Connected ==
  \A i \in 1 .. Len(pages) :
    pages[i].name # RootPath =>
      LET parentPath == getMyPageSingle(pages[i]).my.parentPath
      IN \/ parentPath = <<>>
         \/ \E j \in 1 .. Len(pages) :
              j # i /\ Slice(pages[j].name, 1) = parentPath

\* C3: exactly one node has path "/", and it is the node that had it
\* initially (id 0), whatever was added, renamed or deleted.
C3_RootUnique ==
  /\ Cardinality({ i \in 1 .. Len(pages) : pages[i].name = RootPath }) = 1
  /\ \A p \in PageSet(pages) : p.name = RootPath <=> p.id = 0

\* a page and at least one page under it were deleted, and the root stays
C3_Witness ==
  /\ Deleted
  /\ Len(CallsOf("deletePage")) >= 2
  /\ Len(pages) >= 2

\* C4: on a successful rename of N from old to new, every strict descendant
\* D = old + r (r beginning with "/") ends with path exactly new + r.
C4_DescendantsKeepRemainder ==
  Renamed =>
    \A D \in PageSet(navPages) :
      (D.id # navCurrentPage.id /\ IsUnder(D.name, navCurrentPage.name)) =>
        \E D2 \in PageSet(pages) :
          /\ D2.id = D.id
          /\ D2.name = run.target \o Slice(D.name, Len(navCurrentPage.name))

\* C5: a successful rename changes the path of N and of its strict
\* descendants only; every other existing node, a sibling whose path merely
\* begins with the text of N's path included, keeps its place, id and path.
C5_RenameFrame ==
  Renamed =>
    \A i \in 1 .. Len(navPages) :
      (/\ navPages[i].id # navCurrentPage.id
       /\ ~IsUnder(navPages[i].name, navCurrentPage.name))
        => (i <= Len(pages) /\ pages[i] = navPages[i])

\* a page was renamed while another page began with the text of its old
\* path without being under it (as /aa beside /a), and a page under it
\* was rewritten
C5_Witness ==
  /\ Renamed
  /\ Len(CallsOf("renamePage")) >= 2
  /\ \E p \in PageSet(navPages) :
       /\ p.id # navCurrentPage.id
       /\ Len(p.name) > Len(navCurrentPage.name)
       /\ StartsWith(p.name, navCurrentPage.name)
       /\ ~IsUnder(p.name, navCurrentPage.name)

\* the ancestor paths /s1, /s1/s2, .. of the segments segs, outermost
\* first, from the i-th on, that no page named in names has
RECURSIVE MissingAncestors(_, _, _)
MissingAncestors(segs, i, names) ==
  IF i >= Len(segs) THEN <<>>
  ELSE LET path == <<"/">> \o Join(SubSeq(segs, 1, i))
       IN (IF path \in names THEN <<>> ELSE << path >>)
          \o MissingAncestors(segs, i + 1, names)

\* C6: a successful rename first creates, outermost first, a node at each
\* ancestor path of the target that no node of the pre-rename collection
\* has, exactly those, and only then renames the node and after it its
\* descendants.
C6_AncestorsFirst ==
  Renamed =>
    LET calls == run.calls
        missing == MissingAncestors(FilterBoolean(Split(run.target)), 1,
                                    { p.name : p \in PageSet(navPages) })
        n == Len(missing)
    IN /\ Len(calls) > n
       /\ \A k \in 1 .. n :
            /\ calls[k].op = "createPage"
            /\ calls[k].name = missing[k]
            /\ calls[k].id \notin Ids(navPages)
            /\ [id |-> calls[k].id, name |-> missing[k]] \in PageSet(pages)
       /\ \A k \in (n + 1) .. Len(calls) : calls[k].op # "createPage"
       /\ calls[n + 1] = Call("renamePage", navCurrentPage.id, run.target)
       /\ \A k \in (n + 2) .. Len(calls) :
            calls[k].op = "renamePage" =>
              \E D \in PageSet(navPages) :
                D.id = calls[k].id /\ IsUnder(D.name, navCurrentPage.name)
       /\ Ids(pages) = Ids(navPages) \cup { calls[k].id : k \in 1 .. n }

\* a rename created two missing ancestors
C6_Witness ==
  /\ Renamed
  /\ Len(CallsOf("createPage")) >= 2

\* slash-normalization as the specification words it: leading slash added,
\* surplus leading and trailing slashes stripped
SlashNormalized(reply) == <<"/">> \o StripSlashes(Trim(reply))

\* what the rename handler compares: the trimmed reply, with "/" put in
\* front when it does not begin with one
LeadingSlashEnsured(reply) ==
  IF Trim(reply) # <<>> /\ Head(Trim(reply)) = "/" THEN Trim(reply)
  ELSE <<"/">> \o Trim(reply)

Refused(result) ==
  /\ run.result = result
  /\ run.calls = <<>>
  /\ pages = navPages
  /\ currentPageId = navCurrentPage.id

\* C7 as stated: rename of a non-root node fails with AlreadyExists and
\* changes nothing whenever another node occupies the slash-normalized
\* target.
C7_AlreadyExistsNormalized ==
  (/\ run.op = "rename"
   /\ navCurrentPage.name # RootPath
   /\ \E p \in PageSet(navPages) :
        p.id # navCurrentPage.id /\ p.name = SlashNormalized(run.input))
    => Refused("AlreadyExists")

\* C7 amended: the same, with the target compared as the handler forms it:
\* trimmed, and given a leading slash when it has none; trailing or
\* repeated slashes are not stripped.
C7_AlreadyExistsExact ==
  (/\ run.op = "rename"
   /\ navCurrentPage.name # RootPath
   /\ Trim(run.input) # navCurrentPage.name
   /\ \E p \in PageSet(navPages) :
        p.id # navCurrentPage.id /\ p.name = LeadingSlashEnsured(run.input))
    => Refused("AlreadyExists")

\* a rename was refused for a reply that had to be trimmed and given its
\* leading slash before it matched another page
C7_Witness ==
  /\ run.op = "rename" /\ run.result = "AlreadyExists"
  /\ navCurrentPage.name # RootPath
  /\ run.input # run.target
  /\ \E p \in PageSet(navPages) :
       p.id # navCurrentPage.id /\ p.name = run.target

\* C8: rename and delete invoked on the root change neither the collection
\* nor the current page; no page is created, renamed or deleted.
C8_RootRefused ==
  (run.op \in {"rename", "delete"} /\ navCurrentPage.name = RootPath)
    => /\ run.result \in {"CannotRenameRoot", "CannotDeleteRoot"}
       /\ run.calls = <<>>
       /\ pages = navPages
       /\ currentPageId = navCurrentPage.id

\* delete was confirmed on the root of a collection with other pages
C8_Witness ==
  /\ run.op = "delete" /\ run.result = "CannotDeleteRoot"
  /\ Len(pages) >= 3
  /\ currentPageId = 0

\* C9: delete of a non-root node N removes exactly N and the nodes under
\* it, 1 + |descendants| of them, in one step, and leaves every other node
\* as it was.
C9_DeleteExact ==
  Deleted =>
    LET under == { D \in PageSet(navPages) :
                     /\ D.id # navCurrentPage.id
                     /\ IsUnder(D.name, navCurrentPage.name) }
        removed == { navCurrentPage.id } \cup { D.id : D \in under }
    IN /\ navCurrentPage.name # RootPath
       /\ pages = SelectSeq(navPages, LAMBDA p : p.id \notin removed)
       /\ Len(navPages) - Len(pages) = 1 + Cardinality(under)

\* a page was deleted with a page under it while a sibling beginning with
\* the same text stayed
C9_Witness ==
  /\ Deleted
  /\ Len(CallsOf("deletePage")) >= 2
  /\ \E p \in PageSet(pages) :
       /\ Len(p.name) > Len(navCurrentPage.name)
       /\ StartsWith(p.name, navCurrentPage.name)

\* C10: after a successful delete of N the current page is N's parent
\* node, the node named "/" + N.parentPath (the root when parentPath is
\* ""), which exists in the collection after the deletion.
C10_ParentIsCurrent ==
  Deleted =>
    LET parentName == IF currentMyPage.my.parentPath = <<>> THEN RootPath
                      ELSE <<"/">> \o currentMyPage.my.parentPath
    IN \E p \in PageSet(pages) :
         p.name = parentName /\ currentPageId = p.id

\* C11: create under the current page P with name n (the reply, trimmed)
\* builds the candidate path ("" if P is the root, else P.path) + "/" + n.
\* If an existing node has exactly that path the create is refused with
\* AlreadyExists and changes neither the collection nor the current page;
\* otherwise exactly one node with that path is added, every other node is
\* unchanged and the new node is the current page, and the same create
\* issued again on the result is refused.
C11_Create ==
  run.op = "add" =>
    LET n == Trim(run.input)
        candidate ==
          (IF navCurrentPage.name = RootPath THEN <<>>
           ELSE navCurrentPage.name) \o <<"/">> \o n
        again == handleAdd(Editor, currentMyPage, getMyPages(pages),
                           run.input)
    IN IF \E p \in PageSet(navPages) : p.name = candidate
       THEN Refused("AlreadyExists")
       ELSE /\ run.result = "Ok"
            /\ Len(pages) = Len(navPages) + 1
            /\ SubSeq(pages, 1, Len(navPages)) = navPages
            /\ pages[Len(pages)].name = candidate
            /\ pages[Len(pages)].id \notin Ids(navPages)
            /\ currentPageId = pages[Len(pages)].id
            /\ again.result = "AlreadyExists"
            /\ again.e = Editor
            /\ again.calls = <<>>

\* a create under a page other than the root was refused for a reply that
\* had to be trimmed, while other pages exist
C11_Witness ==
  /\ run.op = "add" /\ run.result = "AlreadyExists"
  /\ navCurrentPage.name # RootPath
  /\ run.input # Trim(run.input)
  /\ Len(pages) >= 3

\* C12: a successful rename removes no id and changes no id: every page
\* keeps its place and id, the ids afterwards are the ids before plus the
\* ids of the created ancestors, and the renamed node and every rewritten
\* descendant is found afterwards under the id it had, with its new path.
C12_IdsStable ==
  Renamed =>
    /\ \A i \in 1 .. Len(navPages) :
         i <= Len(pages) /\ pages[i].id = navPages[i].id
    /\ Len(pages) = Len(navPages) + Len(CallsOf("createPage"))
    /\ Ids(pages) =
         Ids(navPages)
         \cup { CallsOf("createPage")[k].id :
                  k \in 1 .. Len(CallsOf("createPage")) }
    /\ \A k \in 1 .. Len(CallsOf("createPage")) :
         CallsOf("createPage")[k].id \notin Ids(navPages)
    /\ \A k \in 1 .. Len(CallsOf("renamePage")) :
         LET c == CallsOf("renamePage")[k]
         IN /\ c.id \in Ids(navPages)
            /\ [id |-> c.id, name |-> c.name] \in PageSet(pages)
    /\ [id |-> navCurrentPage.id, name |-> run.target] \in PageSet(pages)
    /\ currentPageId = navCurrentPage.id

\* a rename rewrote a page and a page under it while a page created after
\* the renamed one stayed as it was
C12_Witness ==
  /\ Renamed
  /\ Len(CallsOf("renamePage")) >= 2
  /\ \E p \in PageSet(pages) :
       p.id > navCurrentPage.id /\ p.id \notin
         { CallsOf("renamePage")[k].id :
             k \in 1 .. Len(CallsOf("renamePage")) }

\* ---------------------------------------------------------------------- C13
\* the pages of a listing, without what parse derived for them
Plain(list) == { [id |-> list[i].id, name |-> list[i].name] : i \in 1 .. Len(list) }

\* C13: descendants(A, all), for every collection of stored paths, is
\* exactly the set of nodes B other than A whose path starts with A.path
\* followed by "/" when A is not the root, and every non-root node when A
\* is the root; no node is returned twice.
C13_Descendants ==
  query.op = "descendants" =>
    LET A == navCurrentPage
        expected ==
          { B \in PageSet(navPages) :
              /\ B.id # A.id
              /\ IF A.name = RootPath THEN B.name # RootPath
                 ELSE IsUnder(B.name, A.name) }
    IN /\ Plain(query.answer) = expected
       /\ Len(query.answer) = Cardinality(expected)

\* descendants of a non-root page that has some, in a collection where
\* another page shares its bare prefix without being under it
C13_Witness ==
  /\ query.op = "descendants"
  /\ navCurrentPage.name # RootPath
  /\ query.answer # <<>>
  /\ \E B \in PageSet(navPages) :
       /\ StartsWith(B.name, navCurrentPage.name)
       /\ B.id # navCurrentPage.id
       /\ B \notin Plain(query.answer)

\* ---------------------------------------------------------------------- C14
\* C14: descendants is transitively closed: when B is among the
\* descendants of A and C among the descendants of B, C is among the
\* descendants of A.
C14_Transitive ==
  query.op = "descendants" =>
    \A i \in 1 .. Len(query.answer) :
      LET B == query.answer[i]
      IN Plain(findAllChildPages(B, myPages)) \subseteq Plain(query.answer)

\* a non-root A one of whose descendants has descendants of its own
C14_Witness ==
  /\ query.op = "descendants"
  /\ navCurrentPage.name # RootPath
  /\ \E i \in 1 .. Len(query.answer) :
       findAllChildPages(query.answer[i], myPages) # <<>>

\* ---------------------------------------------------------------------- C15
\* the segments of a path: split on "/", empty segments removed
Segments(path) == FilterBoolean(Split(path))

\* C15: for any tree, the child listing of the root holds every node whose
\* path has exactly one segment, and no node with zero or with more than
\* one segment.
C15_RootChildren ==
  (query.op = "children" /\ navCurrentPage.name = RootPath) =>
    Plain(query.answer) =
      { p \in PageSet(navPages) : Len(Segments(p.name)) = 1 }

\* the same, for trees none of whose pages but the root is named by
\* slashes alone
C15_RootChildrenNamed ==
  (/\ query.op = "children"
   /\ navCurrentPage.name = RootPath
   /\ \A p \in PageSet(navPages) :
        p.name = RootPath \/ Segments(p.name) # <<>>) =>
    Plain(query.answer) =
      { p \in PageSet(navPages) : Len(Segments(p.name)) = 1 }

\* ---------------------------------------------------------------------- C16
\* the normalized form of a path, as parse normalizes: leading and
\* trailing slashes stripped; the root's is empty
NormalizedForm(path) == StripSlashes(path)

\* the listing is exactly the pages other than P whose parentPath is
\* parentForm, each once, in the order of parse and non-decreasing by name
ListsChildrenOf(parentForm) ==
  LET P == navCurrentPage
      expected ==
        { p \in PageSet(navPages) :
            /\ p.id # P.id
            /\ getMyPageSingle(p).my.parentPath = parentForm }
  IN /\ Plain(query.answer) = expected
     /\ Len(query.answer) = Cardinality(expected)
     /\ query.answer =
          SelectSeq(myPages, LAMBDA p :
            [id |-> p.id, name |-> p.name] \in expected)
     /\ \A i \in 1 .. Len(query.answer) - 1 :
          ~LocaleLess(query.answer[i + 1].my.name, query.answer[i].my.name)

\* C16: for every current page P the child listing is exactly the nodes
\* other than P whose parentPath equals the normalized form of P.path (the
\* root's is ""), each listed once, in the order produced by parse, that is
\* non-decreasing by name.
C16_Children ==
  query.op = "children" => ListsChildrenOf(NormalizedForm(navCurrentPage.name))

\* the same, for a current page whose name has one leading slash and no
\* trailing one: there the Nav's slice(1) is the normalized form
C16_ChildrenPlainParent ==
  (/\ query.op = "children"
   /\ \/ navCurrentPage.name = RootPath
      \/ Slice(navCurrentPage.name, 1) = NormalizedForm(navCurrentPage.name)) =>
    ListsChildrenOf(NormalizedForm(navCurrentPage.name))

\* ---------------------------------------------------------------------- C17
\* the normalized form of a whole path: "/" and the segments joined by "/"
Normalized(path) == <<"/">> \o Join(Segments(path))

\* no empty segment but in front or at the end
ValidPath(path) ==
  StripSlashes(path) = <<>> \/ Split(StripSlashes(path)) = Segments(path)

\* the path put together again from what parse derived
Reassemble(my) ==
  IF my.parentPath = <<>>
  THEN (IF my.name = <<>> THEN <<"/">> ELSE <<"/">> \o my.name)
  ELSE <<"/">> \o my.parentPath \o <<"/">> \o my.name

\* C17: round trip of parse: for every valid path p, with name and
\* parentPath derived by parse, "/" + parentPath + "/" + name ("/" + name
\* when parentPath is empty, "/" for the root) is the normalized form of p.
C17_RoundTrip ==
  (query.op = "parse" /\ ValidPath(query.path)) =>
    Reassemble(query.answer[1].my) = Normalized(query.path)

\* a valid path of three segments or more, as /a/b/c in the claim
C17_Witness ==
  /\ query.op = "parse"
  /\ ValidPath(query.path)
  /\ Len(Segments(query.path)) >= 3
  /\ Reassemble(query.answer[1].my) = query.path

\* ---------------------------------------------------------------------- C18
\* name and parentPath are those of the path without its empty segments,
\* and for a non-root path neither the name nor a segment of parentPath
\* is empty
ParsedAsNormalized ==
  LET my == query.answer[1].my
      clean == getMyPageSingle([id |-> 0, name |-> Normalized(query.path)]).my
  IN /\ my = clean
     /\ Segments(query.path) # <<>> =>
          /\ my.name # <<>>
          /\ my.parentPath # <<>> =>
               \A i \in 1 .. Len(Split(my.parentPath)) :
                 Split(my.parentPath)[i] # <<>>

\* C18: parse normalizes ambiguous paths: a path with empty segments from
\* repeated slashes, in front, at the end or inside (/a//b), yields the name
\* and parentPath of the path with the empty segments removed (/a/b), so
\* that for a non-root path neither name nor any segment of parentPath is
\* empty.
C18_Normalizes ==
  query.op = "parse" => ParsedAsNormalized

\* the same, for paths whose repeated slashes are in front or at the end
C18_NormalizesEnds ==
  (query.op = "parse" /\ ValidPath(query.path)) => ParsedAsNormalized

\* ---------------------------------------------------------------------- C19
\* snapshot.json holds what the last write answered with success wrote
StoredAsWritten ==
  IF log.write = "none" THEN disk.snapshot = <<>>
  ELSE disk.snapshot # <<>> /\ ParseJSON(disk.snapshot) = log.snapshot

\* C19: snapshot persistence is last-write-wins on a single file: after
\* any sequence of successful /api/save requests, with or without
\* checkpoint, /api/load returns the snapshot of the save processed last;
\* it returns null only if no save has ever succeeded; a save without a
\* snapshot is answered 400 and leaves the stored snapshot unchanged.
C19_LastWriteWins ==
  /\ res.route = "GET /api/load" =>
       /\ res.status = 200
       /\ log.write = "save" => res.body = log.snapshot
       /\ res.body = JNull <=> log.write = "none"
  /\ res.route = "POST /api/save" =>
       /\ res.sent = Undefined => res.status = 400
       /\ res.status = 400 => StoredAsWritten
       /\ res.status = 200 => (log.write = "save" /\ log.snapshot = res.sent)

\* a load after several saves, one of them a checkpoint with another
\* snapshot than the last
C19_Witness ==
  /\ res.route = "GET /api/load"
  /\ log.write = "save"
  /\ res.body = log.snapshot
  /\ \E f \in DOMAIN log.made : log.made[f].snapshot # res.body

\* a save without snapshot answered 400 after a save that succeeded
C19_WitnessRejected ==
  /\ res.route = "POST /api/save"
  /\ res.sent = Undefined
  /\ res.status = 400
  /\ log.write = "save"

\* ---------------------------------------------------------------------- C20
\* the backup folder holds the snapshot and the assets it was made with
AsMade(f) ==
  /\ f \in DOMAIN disk.backups
  /\ ParseJSON(disk.backups[f].snapshot) = log.made[f].snapshot
  /\ disk.backups[f].assets = log.made[f].assets

\* C20: a checkpoint is a point-in-time copy: a save with checkpoint makes
\* a backup holding the snapshot of that request and a copy of every asset
\* stored at that moment; no later save, checkpoint or upload changes a
\* backup already made, and GET /api/restore/<backup> returns the snapshot
\* given when that backup was made.
C20_PointInTime ==
  /\ \A f \in DOMAIN log.made : AsMade(f)
  /\ (res.route = "GET /api/restore" /\ res.status = 200) =>
       res.body = log.made[res.folder].snapshot

\* the same, for the backups whose folder no later checkpoint wrote to: the
\* checkpoints answered in different milliseconds
C20_PointInTimeApart ==
  /\ \A f \in DOMAIN log.made : ~log.made[f].again => AsMade(f)
  /\ (/\ res.route = "GET /api/restore"
      /\ res.status = 200
      /\ ~log.made[res.folder].again) =>
       res.body = log.made[res.folder].snapshot

\* ---------------------------------------------------------------------- C21
\* C21: saves are debounced: at most one save timer is pending at any time;
\* every store change cancels the pending timer and arms a new one; a
\* debounced save is sent only when a full delay has passed with no store
\* change, so that a burst of changes closer together than the delay gives
\* exactly one save request, sent after the last of them.
C21_Debounced ==
  /\ Cardinality(timers) <= 1
  /\ \A t \in timers :
       /\ t.id = saveTimeoutRef
       /\ t.due = trail.lastChange + Delay
  /\ trail.lastChange # 0 =>
       /\ trail.fired <= 1
       /\ timers = {} <=> trail.fired = 1
       /\ trail.fired = 1 => trail.firedAt >= trail.lastChange + Delay

\* one debounced save has been sent after a burst of two changes or more,
\* made less than the delay apart
C21_Witness ==
  /\ trail.fired = 1
  /\ trail.burst >= 2
  /\ trail.lastChange < 1 + Delay
  /\ timers = {}

\* ---------------------------------------------------------------------- C22
\* nothing is pending: no save timer, no request on its way
Settled == timers = {} /\ inflight = EmptyBag

\* snapshot.json holds the editor's document
Persisted ==
  disk.snapshot # <<>> /\ ParseJSON(disk.snapshot) = JObject(doc)

\* C22: eventual persistence under interleaving: once the user has stopped
\* and every timer has fired and every request has been answered, the
\* server's stored snapshot is the editor's latest state, whatever the
\* order in which the save requests (the initial one, debounced ones,
\* checkpoints, the one a restore sends) reached the server.
C22_EventuallyPersisted == Settled => Persisted

\* the same, as long as the server answered the requests in the order in
\* which they were sent
C22_PersistedInOrder == (Settled /\ ~trail.overtaken) => Persisted

\* ---------------------------------------------------------------------- C23
\* the flows in progress
Running == { i \in 1 .. Len(flows) : InProgress(flows[i]) }

\* C23: restore is not re-entrant: at most one restore flow (list, select,
\* fetch, load, save) is in progress at any time, however the clicks on
\* the button are timed, and the loading flag is false again after a
\* restore has ended, with success or not.
C23_NotReentrant ==
  /\ Cardinality(Running) <= 1
  /\ Running = {} => isLoading = FALSE

\* the part on the flag alone: it is false whenever no flow is fetching the
\* backup or saving
C23_FlagReset ==
  (\A i \in 1 .. Len(flows) : flows[i] \notin {"fetch", "save"}) =>
    isLoading = FALSE

\* a click while the flag is set starts nothing
C23_GuardWhileLoading ==
  isLoading =>
    \E i \in 1 .. Len(flows) : flows[i] \in {"fetch", "save"}

\* ---------------------------------------------------------------------- C27
\* the ids of the ancestors a run created
CreatedIds ==
  { CallsOf("createPage")[k].id : k \in 1 .. Len(CallsOf("createPage")) }

\* C27: after every successful rename the editor's current page is the
\* renamed node itself, the page with the id the current page had before,
\* and that page carries the new path; it is not a created ancestor, and
\* the page the handler looks up by the new path is no other node.
C27_CurrentIsRenamed ==
  Renamed =>
    /\ currentPageId = navCurrentPage.id
    /\ currentPageId \notin CreatedIds
    /\ \A p \in PageSet(pages) :
         p.id = currentPageId => p.name = run.target
    /\ FindByName(pages, run.target) # <<>>
    /\ FindByName(pages, run.target)[1].id = navCurrentPage.id
    /\ run.calls[Len(run.calls)] =
         Call("setCurrentPage", navCurrentPage.id, <<>>)

\* a rename that created an ancestor and rewrote a descendant
C27_Witness ==
  /\ Renamed
  /\ CreatedIds # {}
  /\ Len(CallsOf("renamePage")) >= 2
  /\ currentPageId = navCurrentPage.id

\* ---------------------------------------------------------------------- C24
\* C24: the shortcuts are gated by keyboard mode: a key clicks a button
\* only when keyboard mode was active, c the add button, r the rename
\* button and d the delete button, and r and d click nothing when the
\* current page is the root; Cmd/Ctrl+K toggles keyboard mode in any
\* state; Escape, when the palette is not open to take it, leaves
\* keyboard mode inactive; the root is never renamed or deleted by a key.
C24_Gated ==
  /\ last.click # "none" =>
       /\ last.mode
       /\ last.delivered
       /\ last.click = "add" <=> ToLowerCase(last.key) = "c"
       /\ last.click = "rename" <=> ToLowerCase(last.key) = "r"
       /\ last.click = "delete" <=> ToLowerCase(last.key) = "d"
  /\ last.click \in {"rename", "delete"} => ~last.root
  /\ (last.mode /\ ~last.mod /\ ToLowerCase(last.key) = "c") =>
       last.click = "add"
  /\ (last.mode /\ ~last.root /\ ToLowerCase(last.key) \in {"r", "d"}) =>
       last.click \in {"rename", "delete"}
  /\ (last.key = "k" /\ last.mod) => keyboardMode = ~last.mode
  /\ (last.key = "Escape" /\ ~last.open) => ~keyboardMode
  /\ [id |-> 0, name |-> RootPath] \in PageSet(pages)
  /\ last.result \in {"Ok", "CannotRenameRoot", "CannotDeleteRoot"} =>
       /\ last.click \in {"add", "rename", "delete"}
       /\ last.result = "Ok"

\* d deleted a page in keyboard mode, which Cmd+K had switched on
C24_Witness ==
  /\ last.key = "d"
  /\ last.click = "delete"
  /\ last.result = "Ok"
  /\ keyboardMode

\* r pressed on the root in keyboard mode: nothing is clicked
C24_WitnessRoot ==
  /\ last.key = "r"
  /\ last.mode
  /\ last.root
  /\ last.click = "none"
  /\ Len(pages) >= 2

\* ---------------------------------------------------------------------- C25
\* the event opened the palette
Opened == last.key \in {" ", "openCommandPalette"} /\ ~last.open /\ isOpen

\* C25: opening the palette while it is closed, with Space on the
\* document body or with the openCommandPalette event, leaves keyboard
\* mode inactive, the query empty and the selection 0; Escape on the open
\* palette closes it, does not reach the listener of the Controls and
\* leaves keyboard mode active.
C25_PaletteAndMode ==
  /\ ((last.key = " " /\ last.body) \/ last.key = "openCommandPalette") =>
       isOpen
  /\ Opened => ~keyboardMode /\ search = <<>> /\ paletteIndex = 0
  /\ (last.key = "Escape" /\ last.open) =>
       /\ ~isOpen
       /\ search = <<>>
       /\ ~last.delivered
       /\ keyboardMode

\* Escape closed a palette that was open with keyboard mode on and a query
C25_Witness ==
  /\ last.key = "Escape"
  /\ last.open
  /\ last.mode
  /\ keyboardMode
  /\ Len(pages) >= 2

\* Space opened the palette from keyboard mode
C25_WitnessOpened ==
  /\ Opened
  /\ last.key = " "
  /\ last.mode

\* ---------------------------------------------------------------------- C29
Results == paletteFilteredPages(search, pages)

\* C29: the palette's selection index is always within
\* 0 .. max(0, number of results - 1), also when no page matches, and
\* Enter chooses a page of the list or none.
C29_IndexInRange ==
  /\ paletteIndex >= 0
  /\ paletteIndex <= (IF Len(Results) > 0 THEN Len(Results) - 1 ELSE 0)
  /\ last.selected # -1 => last.selected \in 0 .. last.results - 1

\* what does hold: the index is a position of the list whenever the list
\* is not empty, it is -1 or 0 when the list is empty, and Enter chooses
\* a page of the list or none
C29_IndexInRangeOrNone ==
  /\ Results # <<>> => paletteIndex \in 0 .. Len(Results) - 1
  /\ Results = <<>> => paletteIndex \in {-1, 0}
  /\ last.selected # -1 =>
       /\ last.key = "Enter"
       /\ last.selected \in 0 .. last.results - 1
       /\ ~isOpen

\* ---------------------------------------------------------------------- C26
\* the step made a page current, or switched keyboard mode on
Arrived == last.key # "none" /\ last.arrived

\* the arrow key was pressed where it has nothing to do
NothingToDo ==
  \/ last.key = "ArrowLeft" /\ last.path = << >>
  \/ last.key = "ArrowRight" /\ last.length = 0

\* C26: the index ArrowRight last left page P with is remembered for P:
\* whenever P becomes the current page in keyboard mode with children,
\* the selection is that index if it is smaller than the number of
\* children and 0 otherwise; ArrowLeft on the root and ArrowRight with no
\* children change neither the current page nor the memory.
C26_RestoredToEntered ==
  /\ (Arrived /\ keyboardMode /\ Len(children) > 0
      /\ entered # << >> /\ entered.id = currentPageId) =>
       selectedIndex = restored(entered.index, Len(children))
  /\ NothingToDo => last.kept

\* C26 as it holds: the memory is kept by path, and written by ArrowRight
\* entering a child and by ArrowLeft on a page other than the root, each
\* with the selection of the page the key was pressed on; whenever a page
\* becomes current in keyboard mode, or keyboard mode is switched on, and
\* the page has children, the selection is the index remembered for the
\* page's path if there is one smaller than the number of children, and 0
\* otherwise; ArrowLeft on the root and ArrowRight with no children
\* change neither the current page nor the memory.
C26_RestoredToRemembered ==
  /\ (Arrived /\ keyboardMode /\ Len(children) > 0) =>
       selectedIndex =
         (IF currentPagePath(currentMyPage) \in DOMAIN navigationMemory
          THEN restored(navigationMemory[currentPagePath(currentMyPage)],
                        Len(children))
          ELSE 0)
  /\ (last.key = "ArrowRight" /\ last.length > 0) =>
       /\ last.path \in DOMAIN navigationMemory
       /\ navigationMemory[last.path] = last.index
       /\ currentPagePath(currentMyPage) # last.path
  /\ (last.key = "ArrowLeft" /\ last.path # << >>) =>
       /\ last.path \in DOMAIN navigationMemory
       /\ navigationMemory[last.path] = last.index
  /\ NothingToDo => last.kept

\* back on a page with two children that ArrowRight had left with the
\* second one selected: the second one is selected again
C26_Witness ==
  /\ Arrived
  /\ last.key = "ArrowLeft"
  /\ keyboardMode
  /\ Len(children) = 2
  /\ entered # << >>
  /\ entered.id = currentPageId
  /\ entered.index = 1
  /\ selectedIndex = 1

\* the remembered index is no longer a position: the first child is selected
C26_WitnessShrunk ==
  /\ Arrived
  /\ keyboardMode
  /\ Len(children) = 1
  /\ currentPagePath(currentMyPage) \in DOMAIN navigationMemory
  /\ navigationMemory[currentPagePath(currentMyPage)] = 1
  /\ selectedIndex = 0

\* ---------------------------------------------------------------------- C28
\* C28: while keyboard mode is active and the current page has at least
\* one child, the navigator's selection index is a position of the child
\* list, after any arrow keys, page changes and edits of the pages.
C28_SelectionValid ==
  (keyboardMode /\ Len(children) > 0) =>
    selectedIndex \in 0 .. Len(children) - 1

\* ArrowUp wrapped from the first of two children to the last
C28_Witness ==
  /\ keyboardMode
  /\ last.key = "ArrowUp"
  /\ Len(children) = 2
  /\ selectedIndex = 1

\* a deletion left fewer children than the index remembered for the page
C28_WitnessDeleted ==
  /\ keyboardMode
  /\ last.key = "delete"
  /\ Len(children) > 0
  /\ currentPagePath(currentMyPage) \in DOMAIN navigationMemory
  /\ navigationMemory[currentPagePath(currentMyPage)] >= Len(children)

\* ---------------------------------------------------------------------- C30
\* the last request was an export with an assets array
ExportedArray ==
  res.route = "POST /api/export-assets" /\ res.sent.t = "array"

\* the answer accounts for every entry of the array once, in order
Accounted ==
  /\ res.status = 200
  /\ res.body.successCount + res.body.failCount = Len(res.sent.v)
  /\ Len(res.body.results) = Len(res.sent.v)
  /\ res.body.successCount =
       Cardinality({ i \in 1 .. Len(res.body.results) :
                       res.body.results[i].success })
  /\ \A i \in 1 .. Len(res.sent.v) :
       LET entry == res.sent.v[i]
           result == res.body.results[i]
       IN /\ result.id = entry.id
          /\ result.success <=>
               (entry.id # "" /\ entry.blob # "" /\ ~entry.writeFails)
          /\ result.success =>
               /\ result.filename \in DOMAIN disk.assets
               /\ disk.assets[result.filename] # Absent

\* C30: an export with an assets array of length n is answered with
\* successCount + failCount = n and n results in the order of the array,
\* the entries after a failed one being processed as well; an export
\* without an assets array is answered 400 and writes nothing.
C30_EveryAssetAccounted ==
  [][ res'.route = "POST /api/export-assets" =>
        IF res'.sent.t = "array" THEN Accounted'
        ELSE res'.status = 400 /\ disk' = disk ]_vars

\* the same for arrays without a null entry, which is what holds
C30_AccountedUnlessNull ==
  [][ res'.route = "POST /api/export-assets" =>
        IF res'.sent.t = "array"
        THEN (\A i \in 1 .. Len(res'.sent.v) : ~res'.sent.v[i].null) =>
               Accounted'
        ELSE res'.status = 400 /\ disk' = disk ]_vars

\* a null entry ends the request with 500 and no counts, whatever was
\* written before it
C30_NullAborts ==
  (ExportedArray /\ \E i \in 1 .. Len(res.sent.v) : res.sent.v[i].null) =>
    res.status = 500 /\ res.body = Undefined

====
